---- MODULE Spec2Model ----
(***************************************************************************)
(* A model of the display side of the Wayland EGL external platform:       *)
(*   src/src/wayland-egldisplay.c  (display handles, directory, dma-buf    *)
(*                                  feedback, format/modifier sets)        *)
(*   src/src/wayland-egldevice.c   (per-device internal displays)          *)
(*                                                                         *)
(* The specifications share the variables:                                 *)
(*   SpecFormatSet  wlEglFormatSetAdd applied to one format set            *)
(*   SpecFeedback   the dma-buf feedback listener of one feedback object,  *)
(*                  fed with format tables of whole entries                *)
(*   SpecFormatTable the format_table handler fed with any byte size, in   *)
(*                  both builds, and the handlers that read the table      *)
(*   Spec           display handles, the display list, the device list     *)
(*                  and the threads calling the exported hooks             *)
(* A specification leaves the variables of the other parts unchanged.      *)
(***************************************************************************)
EXTENDS Integers, Sequences, FiniteSets, TLC

(***************************************************************************)
(* Bounds of the model.                                                    *)
(***************************************************************************)
MaxFormat == 2
MaxModifier == 2
MaxTableLen == 1
MaxIndices == 2
MaxTranches == 2
MaxDev == 1
MaxDisplays == 2
MaxData == 2
MaxConn == 1
MaxEglDev == 1
MaxThreads == 2
MaxInit == 2

\* sizeof(WlEglDmaBufFormatTableEntry), fixed by the _Static_assert.
EntrySize == 16
\* ZWP_LINUX_DMABUF_FEEDBACK_V1_TRANCHE_FLAGS_SCANOUT, the bit tested by
\* dmabuf_feedback_tranche_flags.
ScanoutBit == 1

FormatCodes == 1..MaxFormat
Modifiers == 1..MaxModifier
FormatPairs == FormatCodes \X Modifiers

VARIABLES
    NDEBUG,        \* build: TRUE when assert() is compiled out
    crashed,       \* the process has aborted (failed assert) or faulted
    fset,          \* SpecFormatSet: the WlEglDmaBufFormatSet under test
    fadded,        \* SpecFormatSet: the pairs passed to wlEglFormatSetAdd
    fallocFailed,  \* SpecFormatSet: some realloc has returned NULL
    flast,         \* SpecFormatSet: the last call: its pair and whether the
                   \*   set held the pair before
    fsListening,   \* SpecDisplayFormats: the display that owns the set is
                   \*   initialized and dmabuf_listener is registered
    feedback,      \* SpecFeedback: the WlEglDmaBufFeedback
    lastEv,        \* SpecFeedback: facts about the last event handled:
                   \*   cleared  its lazy reset dropped committed tranches
    cycle,         \* SpecFeedback: 0 until the first done, 1 from the first
                   \*   done until the next reset or done, 2 afterwards
    gGroup,        \* SpecFeedback, first cycle only: what the events since
                   \*   the last tranche_done announced (history)
    gList,         \* SpecFeedback, first cycle only: the groups closed by
                   \*   tranche_done (history)
    fbAllocFailed, \* SpecFeedback, first cycle only: a realloc of a format
                   \*   set returned NULL
    gCycle,        \* SpecFeedbackContract: the advertisement cycle in
                   \*   progress (history, kept when `track` is set):
                   \*   open   one of main_device, tranche_target_device,
                   \*          tranche_flags, tranche_formats has arrived
                   \*          since the last done
                   \*   since  the tranches that tranche_done has copied
                   \*          into the array since the done before the
                   \*          last event
                   \*   done   the last event was done
                   \*   before numTranches at the done that ended the
                   \*          cycle before
    mem,           \* heap: for each WlEglDisplay address "unused", "live"
                   \*   or "freed" (passed to free(), contents stale)
    dpy,           \* the WlEglDisplay stored at each address
    wlEglDisplayList, \* the addresses linked in wlEglDisplayList, head first
    deviceDpyList, \* for each WlEglPlatformData its list of WlEglDeviceDpy
    apiLock,       \* the thread inside wlExternalApiLock(), 0 when free
    mutex,         \* for each address the thread holding display->mutex
    pc,            \* for each thread: where it is in which call
    lastCall,      \* what the last step returned to its caller
    returned,      \* <<key, handle>> for every handle returned by
                   \*   wlEglGetPlatformDisplayExport since the last
                   \*   wlEglDestroyAllDisplays (history)
    law,           \* for each address the run of eglInitialize /
                   \*   eglTerminate calls in progress on it (history)
    devCall,       \* SpecDevice: the last call of wayland-egldevice.c made
                   \*   on its own: its arguments, its result, the native
                   \*   calls it made and the entry as it was (history)
    tdCall         \* SpecTerminate: the last call of terminateDisplay made
                   \*   on its own: the display before and after, the
                   \*   non-NULL protocol pointers before and after, the
                   \*   arguments, and the calls it made, in order

fsVars == <<fset, fadded, fallocFailed, flast, fsListening>>
fbVars == <<feedback, lastEv, cycle, gGroup, gList, fbAllocFailed, gCycle>>
dpVars == <<mem, dpy, wlEglDisplayList, deviceDpyList, apiLock, mutex, pc,
           lastCall, returned, law>>
envVars == <<NDEBUG, crashed>>
devVars == <<devCall, tdCall>>
vars == <<NDEBUG, crashed, fset, fadded, fallocFailed, flast, fsListening,
          feedback, lastEv, cycle, gGroup, gList, fbAllocFailed, gCycle,
          mem, dpy, wlEglDisplayList, deviceDpyList, apiLock, mutex, pc,
          lastCall, returned, law, devCall, tdCall>>

(***************************************************************************)
(* Format/modifier sets.  A WlEglDmaBufFormatSet is its array of           *)
(* WlEglDmaBufFormat (numFormats is the length of dmaBufFormats) and       *)
(* whether the array has been passed to free() while the struct still      *)
(* points to it.                                                           *)
(***************************************************************************)
EmptyFormatSet == [dmaBufFormats |-> <<>>, freed |-> FALSE]

HasModifier(format, modifier) ==
    \E m \in 1..Len(format.modifiers) : format.modifiers[m] = modifier

\* The mutant of wlEglDmaBufFormatAddModifier: the scan for an equal
\* modifier is missing.
AddModifierNoScan(format, modifier, allocOk) ==
    IF ~allocOk THEN format
    ELSE [format EXCEPT !.modifiers = Append(@, modifier)]

wlEglDmaBufFormatAddModifier(format, modifier, allocOk) ==
    IF HasModifier(format, modifier) THEN format
    ELSE IF ~allocOk THEN format
    ELSE [format EXCEPT !.modifiers = Append(@, modifier)]

\* The index of the first entry for `format`, 0 when there is none.
FindFormat(fmts, format) ==
    IF \E f \in 1..Len(fmts) : fmts[f].format = format
    THEN CHOOSE f \in 1..Len(fmts) :
            /\ fmts[f].format = format
            /\ \A g \in 1..(f - 1) : fmts[g].format # format
    ELSE 0

wlEglFormatSetAdd(fmts, format, modifier, okFormats, okModifiers) ==
    LET f == FindFormat(fmts, format) IN
    IF f # 0
    THEN [fmts EXCEPT ![f] =
            wlEglDmaBufFormatAddModifier(@, modifier, okModifiers)]
    ELSE IF ~okFormats THEN fmts
    ELSE Append(fmts,
            wlEglDmaBufFormatAddModifier(
                [format |-> format, modifiers |-> <<>>],
                modifier, okModifiers))

\* free() of every modifier array and of the format array; the struct is
\* not written, so a non-empty set keeps its count and dangling pointers.
wlEglDestroyFormatSet(set) ==
    IF set.dmaBufFormats = <<>> THEN set ELSE [set EXCEPT !.freed = TRUE]

\* The (format, modifier) pairs a format array holds.
PairsOf(fmts) ==
    UNION {{<<fmts[f].format, fmts[f].modifiers[m]>> :
                m \in 1..Len(fmts[f].modifiers)} : f \in 1..Len(fmts)}

\* Whether a call of wlEglFormatSetAdd with these realloc outcomes gets NULL
\* from a realloc it actually makes.
AddAllocFails(fmts, format, modifier, okFormats, okModifiers) ==
    LET f == FindFormat(fmts, format) IN
    IF f # 0
    THEN ~HasModifier(fmts[f], modifier) /\ ~okModifiers
    ELSE ~okFormats \/ ~okModifiers

(***************************************************************************)
(* SpecFormatSet: calls of wlEglFormatSetAdd on one set.                   *)
(***************************************************************************)
FsAdd(format, modifier, okFormats, okModifiers) ==
    /\ fset' = [fset EXCEPT !.dmaBufFormats =
                    wlEglFormatSetAdd(@, format, modifier,
                                      okFormats, okModifiers)]
    /\ fadded' = fadded \cup {<<format, modifier>>}
    /\ fallocFailed' = (fallocFailed \/
            AddAllocFails(fset.dmaBufFormats, format, modifier,
                          okFormats, okModifiers))
    /\ flast' = [format |-> format, modifier |-> modifier,
                 present |-> <<format, modifier>> \in
                                PairsOf(fset.dmaBufFormats)]
    /\ UNCHANGED fsListening
    /\ UNCHANGED <<envVars, fbVars, dpVars, devVars>>

FsInit ==
    /\ fset = EmptyFormatSet
    /\ fadded = {}
    /\ fallocFailed = FALSE
    /\ flast = [format |-> 0, modifier |-> 0, present |-> FALSE]
    /\ fsListening = FALSE

FsNext ==
    \E format \in FormatCodes, modifier \in Modifiers,
       okFormats \in BOOLEAN, okModifiers \in BOOLEAN :
        FsAdd(format, modifier, okFormats, okModifiers)

(***************************************************************************)
(* The dma-buf feedback object (WlEglDmaBufFeedback) and its listener.     *)
(*   formatTable.entry  "null" (never set), "mapped", "failed"             *)
(*                      (MAP_FAILED), or "unmapped" (the address of a      *)
(*                      region that munmap() has removed)                  *)
(*   formatTable.data   the entries the mapped file holds                  *)
(*   tranches           the committed array; numTranches is its length     *)
(***************************************************************************)
EmptyTranche ==
    [drmDev |-> 0, supportsScanout |-> FALSE, formatSet |-> EmptyFormatSet]

ZeroFeedback ==
    [formatTable |-> [len |-> 0, entry |-> "null", data |-> <<>>],
     tranches |-> <<>>,
     tmpTranche |-> EmptyTranche,
     mainDev |-> 0,
     feedbackDone |-> FALSE,
     unprocessedFeedback |-> FALSE]

DevIds == 1..MaxDev

\* Entry i (from 0) of the file the compositor passes with format_table.
FileEntry(i) ==
    [format |-> (i % MaxFormat) + 1,
     modifier |-> ((i \div MaxFormat) % MaxModifier) + 1]

FileEntries(n) == [i \in 1..n |-> FileEntry(i - 1)]

\* Byte sizes a format_table event may carry: whole tables and tables with
\* half an entry more.
TableSizes ==
    {EntrySize * k : k \in 0..MaxTableLen} \cup
    {EntrySize * k + (EntrySize \div 2) : k \in 0..MaxTableLen}

WholeTableSizes == {size \in TableSizes : size % EntrySize = 0}

\* Index arrays a tranche_formats event may carry; MaxTableLen is beyond
\* every table.
IndexArrays ==
    UNION {[1..n -> 0..MaxTableLen] : n \in 0..MaxIndices}

\* Values of the flags argument of tranche_flags.
FlagValues == 0..3

NoEvent == [cleared |-> FALSE, fdClosed |-> FALSE]

\* Mutant of wlEglFeedbackResetTranches: the committed array is kept.
ResetTranchesKeepsArray(fb) ==
    IF Len(fb.tranches) = 0 THEN fb
    ELSE [fb EXCEPT !.tmpTranche.formatSet = wlEglDestroyFormatSet(@)]

wlEglFeedbackResetTranches(fb) ==
    IF Len(fb.tranches) = 0 THEN fb
    ELSE [fb EXCEPT !.tmpTranche.formatSet = wlEglDestroyFormatSet(@),
                    !.tranches = <<>>]

\* wlEglFeedbackResetTranches passes to free() an array that was freed
\* before.
ResetDoubleFree(fb) ==
    /\ Len(fb.tranches) > 0
    /\ \/ fb.tmpTranche.formatSet.freed
       \/ \E i \in 1..Len(fb.tranches) : fb.tranches[i].formatSet.freed

\* Mutant of dmabuf_feedback_check_reset_tranches: the flag is cleared and
\* the tranches are kept.
CheckResetFlagOnly(fb) == [fb EXCEPT !.feedbackDone = FALSE]

dmabuf_feedback_check_reset_tranches(fb) ==
    IF ~fb.feedbackDone THEN fb
    ELSE wlEglFeedbackResetTranches([fb EXCEPT !.feedbackDone = FALSE])

\* The outcomes of an access that is undefined when `undefined` holds:
\* FALSE the handler runs on, TRUE the process faults.
Faults(undefined) == IF undefined THEN BOOLEAN ELSE {FALSE}

CheckResetDoubleFree(fb) == fb.feedbackDone /\ ResetDoubleFree(fb)

\* What the last event's call of dmabuf_feedback_check_reset_tranches did.
ResetEvent(fb) ==
    [NoEvent EXCEPT !.cleared = fb.feedbackDone /\ Len(fb.tranches) > 0]

\* The history of the first cycle is kept until the first done has been
\* followed by a lazy reset or by a second done.
EmptyGroup == [dev |-> 0, scanout |-> FALSE, pairs |-> {}]

NextCycle(fb) == IF cycle = 1 /\ ~fb.feedbackDone THEN 2 ELSE cycle

Ghost(group, list, failed) ==
    IF cycle' < 2
    THEN /\ gGroup' = group
         /\ gList' = list
         /\ fbAllocFailed' = failed
    ELSE /\ gGroup' = EmptyGroup
         /\ gList' = <<>>
         /\ fbAllocFailed' = FALSE

\* The cycle history after an event.  A cycle ends with done; the next one
\* begins with the event that follows.  "reset" stands for the four events
\* that call dmabuf_feedback_check_reset_tranches, "commit" for
\* tranche_done, which copies tmpTranche into the array.
NoCycle ==
    [track |-> FALSE, open |-> FALSE, since |-> <<>>, done |-> FALSE,
     before |-> 0]

CycleAfter(kind) ==
    LET since == IF gCycle.done THEN <<>> ELSE gCycle.since
        before == IF gCycle.done THEN Len(feedback.tranches)
                                 ELSE gCycle.before
    IN
    gCycle' =
        IF ~gCycle.track THEN gCycle
        ELSE [track |-> TRUE,
              open |-> CASE kind = "done" -> FALSE
                         [] kind = "reset" -> TRUE
                         [] OTHER -> gCycle.open,
              since |-> IF kind = "commit"
                        THEN Append(since, feedback.tmpTranche)
                        ELSE since,
              done |-> kind = "done",
              before |-> before]

\* abort(), or a fault: the process and its memory are gone.
Abort ==
    /\ crashed' = TRUE
    /\ feedback' = ZeroFeedback
    /\ lastEv' = NoEvent
    /\ cycle' = 2
    /\ gGroup' = EmptyGroup
    /\ gList' = <<>>
    /\ fbAllocFailed' = FALSE
    /\ gCycle' = NoCycle
    /\ UNCHANGED <<NDEBUG, fsVars, dpVars, devVars>>

dmabuf_feedback_main_device(dev) ==
    /\ ~crashed
    /\ \E fault \in Faults(CheckResetDoubleFree(feedback)) :
        IF fault THEN Abort
        ELSE
            /\ feedback' = [dmabuf_feedback_check_reset_tranches(feedback)
                                EXCEPT !.mainDev = dev]
            /\ lastEv' = ResetEvent(feedback)
            /\ cycle' = NextCycle(feedback')
            /\ Ghost(gGroup, gList, fbAllocFailed)
            /\ CycleAfter("reset")
            /\ UNCHANGED <<envVars, fsVars, dpVars, devVars>>

dmabuf_feedback_tranche_target_device(dev) ==
    /\ ~crashed
    /\ \E fault \in Faults(CheckResetDoubleFree(feedback)) :
        IF fault THEN Abort
        ELSE
            /\ feedback' = [dmabuf_feedback_check_reset_tranches(feedback)
                                EXCEPT !.tmpTranche.drmDev = dev]
            /\ lastEv' = ResetEvent(feedback)
            /\ cycle' = NextCycle(feedback')
            /\ Ghost([gGroup EXCEPT !.dev = dev], gList, fbAllocFailed)
            /\ CycleAfter("reset")
            /\ UNCHANGED <<envVars, fsVars, dpVars, devVars>>

\* Mutant of the flag test: the scanout bit is stored whatever the flags.
ScanoutAlways(flags) == TRUE

\* flags & ZWP_LINUX_DMABUF_FEEDBACK_V1_TRANCHE_FLAGS_SCANOUT
HasScanout(flags) == (flags \div ScanoutBit) % 2 = 1

dmabuf_feedback_tranche_flags(flags) ==
    /\ ~crashed
    /\ \E fault \in Faults(CheckResetDoubleFree(feedback)) :
        IF fault THEN Abort
        ELSE
            /\ feedback' =
                LET fb == dmabuf_feedback_check_reset_tranches(feedback) IN
                IF HasScanout(flags)
                THEN [fb EXCEPT !.tmpTranche.supportsScanout = TRUE]
                ELSE fb
            /\ lastEv' = ResetEvent(feedback)
            /\ cycle' = NextCycle(feedback')
            /\ Ghost([gGroup EXCEPT !.scanout = @ \/ flags \in {1, 3}],
                     gList, fbAllocFailed)
            /\ CycleAfter("reset")
            /\ UNCHANGED <<envVars, fsVars, dpVars, devVars>>

\* What reading a format array can yield: the array itself, or, once it has
\* been freed, the array with its entries overwritten.
ZeroFormat == [format |-> 0, modifiers |-> <<>>]

ReadFormats(set) ==
    IF ~set.freed THEN {set.dmaBufFormats}
    ELSE {set.dmaBufFormats,
          [i \in 1..Len(set.dmaBufFormats) |-> ZeroFormat]}

\* The indices of the array that lie inside the format table, in order.
InRange(ft, indices) == SelectSeq(indices, LAMBDA i : i < ft.len)

\* Mutant of the range test of dmabuf_feedback_tranche_formats: an index
\* equal to the table length is let through and reads the last entry.
AddEntriesOffByOne(fmts, ft, indices, allocOk) ==
    LET RECURSIVE Go(_, _)
        Go(acc, idxs) ==
            IF idxs = <<>> THEN acc
            ELSE LET i == Head(idxs)
                     j == IF i = ft.len THEN i - 1 ELSE i IN
                 Go(IF i > ft.len \/ ft.len = 0 THEN acc
                    ELSE wlEglFormatSetAdd(acc, ft.data[j + 1].format,
                                           ft.data[j + 1].modifier,
                                           allocOk, allocOk),
                    Tail(idxs))
    IN Go(fmts, indices)

\* The loop of dmabuf_feedback_tranche_formats over the index array; every
\* realloc of one event has the same outcome.
AddEntries(fmts, ft, indices, allocOk) ==
    LET RECURSIVE Go(_, _)
        Go(acc, idxs) ==
            IF idxs = <<>> THEN acc
            ELSE LET i == Head(idxs) IN
                 Go(IF i >= ft.len THEN acc
                    ELSE wlEglFormatSetAdd(acc, ft.data[i + 1].format,
                                           ft.data[i + 1].modifier,
                                           allocOk, allocOk),
                    Tail(idxs))
    IN Go(fmts, indices)

\* The table entries an index array names (history only).
NamedPairs(ft, indices) ==
    {<<ft.data[i + 1].format, ft.data[i + 1].modifier>> :
        i \in {indices[k] : k \in 1..Len(indices)} \cap 0..(ft.len - 1)}

\* What reading the format table can yield: its entries, or, once the
\* region has been unmapped, what has been mapped at the address since.
ReadTable(ft) ==
    IF ft.entry # "unmapped" THEN {ft}
    ELSE {ft, [ft EXCEPT !.data = [i \in 1..ft.len |-> FileEntry(i)]]}

\* The event reads, and may realloc, a format array that the lazy reset
\* has freed.
FormatsUseAfterFree(fb, indices) ==
    /\ InRange(fb.formatTable, indices) # <<>>
    /\ dmabuf_feedback_check_reset_tranches(fb).tmpTranche.formatSet.freed

\* Reading or reallocating the freed array either works on what the
\* memory holds now or faults; so does freeing an array twice.
dmabuf_feedback_tranche_formats(indices, allocOk) ==
    /\ ~crashed
    /\ LET fb == dmabuf_feedback_check_reset_tranches(feedback)
           set == fb.tmpTranche.formatSet
           touched == InRange(fb.formatTable, indices) # <<>>
       IN
       \E fault \in Faults(\/ touched /\ set.freed
                           \/ touched /\ fb.formatTable.entry = "unmapped"
                           \/ CheckResetDoubleFree(feedback)) :
         IF fault THEN Abort
         ELSE
           \E view \in (IF touched THEN ReadFormats(set)
                                   ELSE {set.dmaBufFormats}),
              table \in (IF touched THEN ReadTable(fb.formatTable)
                                    ELSE {fb.formatTable}) :
             LET result == AddEntries(view, table, indices, allocOk)
             IN
             /\ feedback' = [fb EXCEPT !.tmpTranche.formatSet =
                    [dmaBufFormats |-> result,
                     freed |-> set.freed /\ Len(result) = Len(view)]]
             /\ lastEv' = ResetEvent(feedback)
             /\ cycle' = NextCycle(feedback')
             /\ Ghost([gGroup EXCEPT !.pairs =
                            @ \cup NamedPairs(fb.formatTable, indices)],
                      gList,
                      fbAllocFailed \/
                        result # AddEntries(view, table, indices, TRUE))
             /\ CycleAfter("reset")
             /\ UNCHANGED <<envVars, fsVars, dpVars, devVars>>

\* Mutant of dmabuf_feedback_tranche_done: the memset of tmpTranche is
\* missing.
CommitKeepsTmp(fb) ==
    [fb EXCEPT !.tranches = Append(@, fb.tmpTranche)]

\* The memcpy into the grown array and the memset of tmpTranche.
CommitTranche(fb) ==
    [fb EXCEPT !.tranches = Append(@, fb.tmpTranche),
               !.tmpTranche = EmptyTranche]

\* realloc returning NULL stops the process: assert(feedback->tranches)
\* aborts, and without the assert the memcpy writes through NULL.
dmabuf_feedback_tranche_done(allocOk) ==
    /\ ~crashed
    /\ Len(feedback.tranches) < MaxTranches
    /\ IF allocOk
       THEN /\ feedback' = CommitTranche(feedback)
            /\ lastEv' = NoEvent
            /\ UNCHANGED cycle
            /\ Ghost(EmptyGroup, Append(gList, gGroup), fbAllocFailed)
            /\ CycleAfter("commit")
            /\ UNCHANGED <<envVars, fsVars, dpVars, devVars>>
       ELSE Abort

\* Mutant of dmabuf_feedback_done: it also resets the tranches.
DoneResets(fb) ==
    wlEglFeedbackResetTranches(
        [fb EXCEPT !.feedbackDone = TRUE, !.unprocessedFeedback = TRUE])

DoneFlags(fb) ==
    [fb EXCEPT !.feedbackDone = TRUE, !.unprocessedFeedback = TRUE]

dmabuf_feedback_done ==
    /\ ~crashed
    /\ feedback' = DoneFlags(feedback)
    /\ lastEv' = NoEvent
    /\ cycle' = IF cycle < 2 THEN cycle + 1 ELSE 2
    /\ Ghost(gGroup, gList, fbAllocFailed)
    /\ CycleAfter("done")
    /\ UNCHANGED <<envVars, fsVars, dpVars, devVars>>

\* Mutant of the assert of dmabuf_feedback_format_table: the size check
\* stops the handler in every build.
SizeCheckedAlways(size, ndebug) == size % EntrySize # 0

\* assert(size % sizeof(WlEglDmaBufFormatTableEntry) == 0): whether the
\* handler stops (abort) on this size in this build.
SizeAssertFails(size, ndebug) == ~ndebug /\ size % EntrySize # 0

\* Mutant of the close(fd) of dmabuf_feedback_format_table: the
\* descriptor is closed only when the mapping was made.
FdClosedWhenMapped(mapped) == mapped

\* close(fd) follows the mmap() call whatever it returned.
FdClosed(mapped) == TRUE

\* mmap() of `size` bytes: a length of 0 is refused (EINVAL).  The address
\* is stored over the one the field held.
dmabuf_feedback_format_table(size, mmapOk) ==
    /\ ~crashed
    /\ IF SizeAssertFails(size, NDEBUG)
       THEN Abort
       ELSE /\ feedback' = [feedback EXCEPT !.formatTable =
                IF mmapOk /\ size > 0
                THEN [len |-> size \div EntrySize, entry |-> "mapped",
                      data |-> FileEntries(size \div EntrySize)]
                ELSE [len |-> 0, entry |-> "failed", data |-> <<>>]]
            /\ lastEv' = [NoEvent EXCEPT
                            !.fdClosed = FdClosed(mmapOk /\ size > 0)]
            /\ UNCHANGED cycle
            /\ Ghost(gGroup, gList, fbAllocFailed)
            /\ CycleAfter("table")
            /\ UNCHANGED <<envVars, fsVars, dpVars, devVars>>

\* Mutant of wlEglDestroyFeedback: the table is unmapped and the tranches
\* are kept.
DestroyKeepsTranches(fb) ==
    [fb EXCEPT !.formatTable.entry = IF @ = "mapped" THEN "unmapped" ELSE @]

\* munmap(entry, 16 * len) after the reset.  The call fails (EINVAL) and
\* changes nothing for the NULL and MAP_FAILED addresses, whose len is 0;
\* neither entry nor len is written afterwards.
wlEglDestroyFeedback(fb) ==
    [wlEglFeedbackResetTranches(fb) EXCEPT !.formatTable.entry =
        IF @ = "mapped" THEN "unmapped" ELSE @]

\* terminateDisplay destroys display->defaultFeedback; the struct stays in
\* the display and the next wlEglInitializeHook registers it again, so the
\* events that follow reach the same fields.
DestroyFeedback ==
    /\ ~crashed
    /\ \E fault \in Faults(ResetDoubleFree(feedback)) :
        IF fault THEN Abort
        ELSE /\ feedback' = wlEglDestroyFeedback(feedback)
             /\ lastEv' = NoEvent
             /\ cycle' = 2
             /\ Ghost(EmptyGroup, <<>>, FALSE)
             /\ gCycle' = [NoCycle EXCEPT !.track = gCycle.track]
             /\ UNCHANGED <<envVars, fsVars, dpVars, devVars>>

FbInit ==
    /\ feedback = ZeroFeedback
    /\ lastEv = NoEvent
    /\ cycle = 0
    /\ gGroup = EmptyGroup
    /\ gList = <<>>
    /\ fbAllocFailed = FALSE
    /\ gCycle = NoCycle

\* The same state, with the history of the cycles kept.
FbInitTracked ==
    /\ feedback = ZeroFeedback
    /\ lastEv = NoEvent
    /\ cycle = 0
    /\ gGroup = EmptyGroup
    /\ gList = <<>>
    /\ fbAllocFailed = FALSE
    /\ gCycle = [NoCycle EXCEPT !.track = TRUE]

FbNext ==
    \/ \E dev \in DevIds : dmabuf_feedback_main_device(dev)
    \/ \E dev \in DevIds : dmabuf_feedback_tranche_target_device(dev)
    \/ \E flags \in FlagValues : dmabuf_feedback_tranche_flags(flags)
    \/ \E indices \in IndexArrays, allocOk \in BOOLEAN :
            dmabuf_feedback_tranche_formats(indices, allocOk)
    \/ \E allocOk \in BOOLEAN : dmabuf_feedback_tranche_done(allocOk)
    \/ dmabuf_feedback_done
    \/ \E size \in WholeTableSizes, mmapOk \in BOOLEAN :
            dmabuf_feedback_format_table(size, mmapOk)

\* The events under the protocol contract that every cycle has one of
\* main_device, tranche_target_device, tranche_flags and tranche_formats,
\* and that one of them comes before the first tranche_done of the cycle:
\* tranche_done and done arrive only in a cycle that one of the four has
\* opened.
FbContractNext ==
    \/ \E dev \in DevIds : dmabuf_feedback_main_device(dev)
    \/ \E dev \in DevIds : dmabuf_feedback_tranche_target_device(dev)
    \/ \E flags \in FlagValues : dmabuf_feedback_tranche_flags(flags)
    \/ \E indices \in IndexArrays, allocOk \in BOOLEAN :
            dmabuf_feedback_tranche_formats(indices, allocOk)
    \/ \E allocOk \in BOOLEAN :
            gCycle.open /\ dmabuf_feedback_tranche_done(allocOk)
    \/ gCycle.open /\ dmabuf_feedback_done
    \/ \E size \in WholeTableSizes, mmapOk \in BOOLEAN :
            dmabuf_feedback_format_table(size, mmapOk)

\* The events that map, read and unmap the format table, and the ones
\* that commit and free what was read from it.
FbLifeNext ==
    \/ \E size \in WholeTableSizes, mmapOk \in BOOLEAN :
            dmabuf_feedback_format_table(size, mmapOk)
    \/ \E indices \in IndexArrays, allocOk \in BOOLEAN :
            dmabuf_feedback_tranche_formats(indices, allocOk)
    \/ \E allocOk \in BOOLEAN : dmabuf_feedback_tranche_done(allocOk)
    \/ dmabuf_feedback_done
    \/ DestroyFeedback

FtNext ==
    \/ \E size \in TableSizes, mmapOk \in BOOLEAN :
            dmabuf_feedback_format_table(size, mmapOk)
    \/ \E indices \in IndexArrays, allocOk \in BOOLEAN :
            dmabuf_feedback_tranche_formats(indices, allocOk)
    \/ \E allocOk \in BOOLEAN : dmabuf_feedback_tranche_done(allocOk)

(***************************************************************************)
(* display->formatSet over the life of one display: wlEglInitializeHook    *)
(* registers dmabuf_listener and its roundtrips deliver the modifier       *)
(* events; terminateDisplay passes the set to wlEglDestroyFormatSet.  No   *)
(* other statement writes the set.                                         *)
(***************************************************************************)
\* The longest array followed: every format and one stale entry.
MaxSetLen == MaxFormat + 1

NoAdd == [format |-> 0, modifier |-> 0, present |-> FALSE]

FsAbort ==
    /\ crashed' = TRUE
    /\ fset' = EmptyFormatSet
    /\ fadded' = {}
    /\ fallocFailed' = FALSE
    /\ flast' = NoAdd
    /\ fsListening' = FALSE
    /\ UNCHANGED <<NDEBUG, fbVars, dpVars, devVars>>

\* wlEglInitializeHook on a display with initCount 0, up to
\* zwp_linux_dmabuf_v1_add_listener; display->formatSet is not written.
DisplayInitialize ==
    /\ ~crashed
    /\ ~fsListening
    /\ fsListening' = TRUE
    /\ fadded' = {}
    /\ flast' = NoAdd
    /\ UNCHANGED <<fset, fallocFailed>>
    /\ UNCHANGED <<envVars, fbVars, dpVars, devVars>>

\* dmabuf_handle_modifier: wlEglFormatSetAdd(&display->formatSet, ...).
\* Scanning or reallocating an array that was freed works on what the
\* memory holds now or faults.
dmabuf_handle_modifier(format, modifier, okFormats, okModifiers) ==
    /\ ~crashed
    /\ fsListening
    /\ \E fault \in Faults(fset.freed) :
        IF fault THEN FsAbort
        ELSE \E view \in ReadFormats(fset) :
            LET result == wlEglFormatSetAdd(view, format, modifier,
                                            okFormats, okModifiers)
            IN
            /\ Len(result) <= MaxSetLen
            /\ fset' = [dmaBufFormats |-> result,
                        freed |-> fset.freed /\ Len(result) = Len(view)]
            /\ fadded' = fadded \cup {<<format, modifier>>}
            /\ fallocFailed' = (fallocFailed \/
                    AddAllocFails(view, format, modifier,
                                  okFormats, okModifiers))
            /\ flast' = [format |-> format, modifier |-> modifier,
                         present |-> <<format, modifier>> \in PairsOf(view)]
            /\ UNCHANGED fsListening
            /\ UNCHANGED <<envVars, fbVars, dpVars, devVars>>

\* The full termination of the display: wlEglDestroyFormatSet(
\* &display->formatSet).  Freeing arrays that were freed before may fault.
DisplayTerminate ==
    /\ ~crashed
    /\ fsListening
    /\ \E fault \in Faults(fset.freed) :
        IF fault THEN FsAbort
        ELSE /\ fset' = wlEglDestroyFormatSet(fset)
             /\ fsListening' = FALSE
             /\ flast' = NoAdd
             /\ UNCHANGED <<fadded, fallocFailed>>
             /\ UNCHANGED <<envVars, fbVars, dpVars, devVars>>

FsLifeNext ==
    \/ DisplayInitialize
    \/ \E format \in FormatCodes, modifier \in Modifiers,
          okFormats \in BOOLEAN, okModifiers \in BOOLEAN :
            dmabuf_handle_modifier(format, modifier, okFormats, okModifiers)
    \/ DisplayTerminate

(***************************************************************************)
(* Display handles, the display list and the per-device internal displays. *)
(*   Handles       the addresses calloc() can return for a WlEglDisplay    *)
(*   NativeDpys    the nativeDpy argument: 0 is NULL                       *)
(*   EglDevices    the EGL_DEVICE_EXT attribute: 0 is EGL_NO_DEVICE_EXT    *)
(* A WlEglDeviceDpy is named by the eglDevice it was created for; the      *)
(* devDpy field of a display holds that name, NoDevDpy when it is NULL.    *)
(***************************************************************************)
Handles == 1..MaxDisplays
Data == 1..MaxData
NativeDpys == 0..MaxConn
EglDevices == 0..MaxEglDev
Threads == 1..MaxThreads

NoDevDpy == -1

\* The connection wl_display_connect(NULL) returns to the display at h.
OwnedConn(h) == MaxConn + h

ZeroDisplay ==
    [data |-> 0, nativeDpy |-> 0, ownNativeDpy |-> FALSE,
     useInitRefCount |-> FALSE, requestedDevice |-> 0, devDpy |-> NoDevDpy,
     initCount |-> 0, refCount |-> 0, bound |-> FALSE]

\* Mutant of the directory match: only the connection pointers are compared.
MatchesPointerOnly(display, nativeDpy, useInitRefCount, requestedDevice) ==
    /\ display.nativeDpy = nativeDpy
    /\ display.useInitRefCount = useInitRefCount
    /\ display.requestedDevice = requestedDevice

\* The test of the scan of wlEglDisplayList.
Matches(display, nativeDpy, useInitRefCount, requestedDevice) ==
    /\ \/ display.nativeDpy = nativeDpy
       \/ (nativeDpy = 0 /\ display.ownNativeDpy)
    /\ display.useInitRefCount = useInitRefCount
    /\ display.requestedDevice = requestedDevice

\* The first display of the list that matches, 0 when none does.
FindDisplay(list, nativeDpy, useInitRefCount, requestedDevice) ==
    LET hits == {i \in 1..Len(list) :
                    Matches(dpy[list[i]], nativeDpy, useInitRefCount,
                            requestedDevice)}
    IN IF hits = {} THEN 0
       ELSE list[CHOOSE i \in hits : \A j \in hits : i <= j]

\* Mutant of wlEglIsWlEglDisplay: any display that was ever allocated
\* passes.
IsAllocatedDisplay(h) == mem[h] # "unused"

\* wlEglIsWlEglDisplay
wlEglIsWlEglDisplay(h) ==
    \E i \in 1..Len(wlEglDisplayList) : wlEglDisplayList[i] = h

\* Some display linked in the list has been freed: walking the list reads
\* freed memory.
ListHasFreed == \E i \in 1..Len(wlEglDisplayList) :
                    mem[wlEglDisplayList[i]] = "freed"

\* The list without the display at h (wl_list_remove).
ListRemove(list, h) == SelectSeq(list, LAMBDA x : x # h)

(***************************************************************************)
(* wayland-egldevice.c                                                     *)
(***************************************************************************)
\* Mutant of the list scan: only the head of the list is compared.
FindDevDpyHeadOnly(list, device) ==
    IF Len(list) > 0 /\ list[1].eglDevice = device THEN 1 ELSE 0

\* The position in `list` of the internal display of `device`, 0 if none.
FindDevDpy(list, device) ==
    IF \E i \in 1..Len(list) : list[i].eglDevice = device
    THEN CHOOSE i \in 1..Len(list) : list[i].eglDevice = device
    ELSE 0

\* wlGetInternalDisplay: the list afterwards and the devDpy returned.  `ok`
\* is FALSE when the calloc, eglGetPlatformDisplay, a device string query
\* or a stat fails on the way to a new entry.
wlGetInternalDisplay(list, device, ok) ==
    IF FindDevDpy(list, device) # 0
    THEN [list |-> list, devDpy |-> device]
    ELSE IF ~ok
    THEN [list |-> list, devDpy |-> NoDevDpy]
    ELSE [list |-> <<[eglDevice |-> device, initCount |-> 0]>> \o list,
          devDpy |-> device]

\* Mutant of wlInternalInitialize: egl.initialize is called whatever the
\* counter is.
InitializeAlwaysNative(devDpy, nativeOk) ==
    IF ~nativeOk
    THEN [devDpy |-> devDpy, res |-> FALSE, native |-> 1]
    ELSE [devDpy |-> [devDpy EXCEPT !.initCount = @ + 1],
          res |-> TRUE, native |-> 1]

\* wlInternalInitialize: `nativeOk` is the result of egl.initialize.
wlInternalInitialize(devDpy, nativeOk) ==
    IF devDpy.initCount = 0 /\ ~nativeOk
    THEN [devDpy |-> devDpy, res |-> FALSE, native |-> 1]
    ELSE [devDpy |-> [devDpy EXCEPT !.initCount = @ + 1],
          res |-> TRUE,
          native |-> IF devDpy.initCount = 0 THEN 1 ELSE 0]

\* Mutant of wlInternalTerminate: a failed native terminate still costs the
\* internal display one initialization.
TerminateFailureDecrements(devDpy, nativeOk) ==
    IF devDpy.initCount > 0
    THEN [devDpy |-> [devDpy EXCEPT !.initCount = @ - 1],
          res |-> ~(devDpy.initCount = 1 /\ ~nativeOk),
          native |-> IF devDpy.initCount = 1 THEN 1 ELSE 0]
    ELSE [devDpy |-> devDpy, res |-> TRUE, native |-> 0]

\* Mutant of wlInternalTerminate: the counter is decremented without the
\* native call.
InternalTerminateNoNative(devDpy, nativeOk) ==
    IF devDpy.initCount > 0
    THEN [devDpy |-> [devDpy EXCEPT !.initCount = @ - 1],
          res |-> TRUE, native |-> 0]
    ELSE [devDpy |-> devDpy, res |-> TRUE, native |-> 0]

\* wlInternalTerminate: `nativeOk` is the result of egl.terminate; `native`
\* is the number of native terminate calls made.
wlInternalTerminate(devDpy, nativeOk) ==
    IF devDpy.initCount > 0
    THEN IF devDpy.initCount = 1 /\ ~nativeOk
         THEN [devDpy |-> devDpy, res |-> FALSE, native |-> 1]
         ELSE [devDpy |-> [devDpy EXCEPT !.initCount = @ - 1],
               res |-> TRUE,
               native |-> IF devDpy.initCount = 1 THEN 1 ELSE 0]
    ELSE [devDpy |-> devDpy, res |-> TRUE, native |-> 0]

\* Mutant of wlFreeAllInternalDisplays: the list is left as it is.
FreeAllInternalKeeps(list) == list

\* wlFreeAllInternalDisplays: every entry is terminated if initialized,
\* unlinked and freed.
wlFreeAllInternalDisplays(list) == <<>>

(***************************************************************************)
(* wayland-egldisplay.c: terminateDisplay                                  *)
(***************************************************************************)
\* Mutant of terminateDisplay: the test for nested initializations is
\* missing, so every call with initCount > 0 terminates in full.
TerminateIgnoresNesting(d, list, globalTeardown, nativeOk) ==
    LET same == [d |-> d, list |-> list, res |-> TRUE, native |-> 0,
                 fault |-> FALSE]
        i == FindDevDpy(list, d.devDpy)
    IN
    IF d.initCount = 0 THEN same
    ELSE IF d.devDpy = NoDevDpy \/ i = 0 THEN [same EXCEPT !.fault = TRUE]
    ELSE LET it == wlInternalTerminate(list[i], nativeOk) IN
         IF ~it.res /\ ~globalTeardown
         THEN [same EXCEPT !.res = FALSE, !.native = it.native]
         ELSE [d |-> [d EXCEPT !.initCount = 0, !.bound = FALSE],
               list |-> [list EXCEPT ![i] = it.devDpy],
               res |-> TRUE, native |-> it.native, fault |-> FALSE]

\* Mutant of terminateDisplay: globalTeardown is not looked at, so a
\* nested count is only decremented and a failure of the native call stops
\* the teardown.
TerminateNeverGlobal(d, list, globalTeardown, nativeOk) ==
    LET same == [d |-> d, list |-> list, res |-> TRUE, native |-> 0,
                 fault |-> FALSE]
    IN
    IF d.initCount = 0 THEN same
    ELSE IF d.initCount > 1 THEN [same EXCEPT !.d.initCount = @ - 1]
    ELSE LET i == FindDevDpy(list, d.devDpy) IN
         IF d.devDpy = NoDevDpy \/ i = 0 THEN [same EXCEPT !.fault = TRUE]
         ELSE LET it == wlInternalTerminate(list[i], nativeOk) IN
              IF ~it.res
              THEN [same EXCEPT !.res = FALSE, !.native = it.native]
              ELSE [d |-> [d EXCEPT !.initCount = 0, !.bound = FALSE],
                    list |-> [list EXCEPT ![i] = it.devDpy],
                    res |-> TRUE, native |-> it.native, fault |-> FALSE]

\* Mutant of the test that guards the releases of terminateDisplay: they
\* are made in every full termination.
ReleasesAlways(globalTeardown, ownNativeDpy) == TRUE

\* if (!globalTeardown || display->ownNativeDpy)
ReleasesAll(globalTeardown, ownNativeDpy) == ~globalTeardown \/ ownNativeDpy

\* Mutant of terminateDisplay: a failure of wlInternalTerminate is ignored
\* whatever globalTeardown is.
TerminateIgnoresFailure(d, list, globalTeardown, nativeOk) ==
    LET same == [d |-> d, list |-> list, res |-> TRUE, native |-> 0,
                 fault |-> FALSE]
    IN
    IF d.initCount = 0 THEN same
    ELSE IF d.initCount > 1 /\ ~globalTeardown
    THEN [same EXCEPT !.d.initCount = @ - 1]
    ELSE LET i == FindDevDpy(list, d.devDpy) IN
         IF d.devDpy = NoDevDpy \/ i = 0 THEN [same EXCEPT !.fault = TRUE]
         ELSE LET it == wlInternalTerminate(list[i], nativeOk) IN
              [d |-> [d EXCEPT
                        !.initCount = 0,
                        !.bound = IF ReleasesAll(globalTeardown,
                                                 d.ownNativeDpy)
                                  THEN FALSE ELSE @],
               list |-> [list EXCEPT ![i] = it.devDpy],
               res |-> TRUE,
               native |-> it.native,
               fault |-> FALSE]

\* terminateDisplay on the display record d, whose platform data has the
\* internal displays `list`.  `fault` is the call of wlInternalTerminate
\* through a NULL devDpy.  The surface list is empty in this model, so
\* wlEglDestroyAllSurfaces has nothing to destroy; `bound` stands for the
\* format set, the feedback, the protocol objects and the event queue.
terminateDisplay(d, list, globalTeardown, nativeOk) ==
    LET same == [d |-> d, list |-> list, res |-> TRUE, native |-> 0,
                 fault |-> FALSE]
    IN
    IF d.initCount = 0 THEN same
    ELSE IF d.initCount > 1 /\ ~globalTeardown
    THEN [same EXCEPT !.d.initCount = @ - 1]
    ELSE LET i == FindDevDpy(list, d.devDpy) IN
         IF d.devDpy = NoDevDpy \/ i = 0 THEN [same EXCEPT !.fault = TRUE]
         ELSE LET it == wlInternalTerminate(list[i], nativeOk) IN
              IF ~it.res /\ ~globalTeardown
              THEN [same EXCEPT !.res = FALSE, !.native = it.native]
              ELSE [d |-> [d EXCEPT
                            !.initCount = 0,
                            !.bound = IF ReleasesAll(globalTeardown,
                                                     d.ownNativeDpy)
                                      THEN FALSE ELSE @],
                    list |-> [list EXCEPT ![i] = it.devDpy],
                    res |-> TRUE,
                    native |-> it.native,
                    fault |-> FALSE]

\* The pointers of a display to protocol objects and to its event queue.
\* The objects are created through the registry of the queue or, for the
\* feedback, through wlDmaBuf, so their events arrive on wlEventQueue.
ProtocolObjects ==
    {"wlRegistry", "wlStreamDpy", "wlStreamCtl", "wpPresentation",
     "wlDrmSyncobj", "wlDmaBuf", "wlDmaBufFeedback"}

\* Mutant of the order of the releases: the event queue goes first.
QueueDestroyedFirst ==
    <<[obj |-> "wlEventQueue", call |-> "wl_event_queue_destroy"],
      [obj |-> "wlRegistry", call |-> "wl_registry_destroy"],
      [obj |-> "wlStreamDpy", call |-> "wl_eglstream_display_destroy"],
      [obj |-> "wlStreamCtl", call |-> "wl_eglstream_controller_destroy"],
      [obj |-> "wpPresentation", call |-> "wp_presentation_destroy"],
      [obj |-> "wlDrmSyncobj",
       call |-> "wp_linux_drm_syncobj_manager_v1_destroy"],
      [obj |-> "wlDmaBuf", call |-> "zwp_linux_dmabuf_v1_destroy"]>>

\* The releases that terminateDisplay makes after wlEglDestroyFeedback,
\* each one if its pointer is not NULL, in the order of the source.
ObjectDestroys ==
    <<[obj |-> "wlRegistry", call |-> "wl_registry_destroy"],
      [obj |-> "wlStreamDpy", call |-> "wl_eglstream_display_destroy"],
      [obj |-> "wlStreamCtl", call |-> "wl_eglstream_controller_destroy"],
      [obj |-> "wpPresentation", call |-> "wp_presentation_destroy"],
      [obj |-> "wlDrmSyncobj",
       call |-> "wp_linux_drm_syncobj_manager_v1_destroy"],
      [obj |-> "wlDmaBuf", call |-> "zwp_linux_dmabuf_v1_destroy"],
      [obj |-> "wlEventQueue", call |-> "wl_event_queue_destroy"]>>

\* The calls of those releases for the pointers in `objs`.
DestroyCalls(objs) ==
    LET there == SelectSeq(ObjectDestroys, LAMBDA e : e.obj \in objs)
    IN [i \in 1..Len(there) |-> there[i].call]

\* The calls terminateDisplay makes, in order, on a display whose non-NULL
\* pointers are `objs`.  wlEglDestroyFeedback destroys wlDmaBufFeedback
\* if it is not NULL.
terminateCalls(d, list, globalTeardown, nativeOk, objs) ==
    IF d.initCount = 0 \/ (d.initCount > 1 /\ ~globalTeardown) THEN <<>>
    ELSE IF ~terminateDisplay(d, list, globalTeardown, nativeOk).res
    THEN <<"wlInternalTerminate">>
    ELSE <<"wlInternalTerminate", "wlEglDestroyAllSurfaces">> \o
         (IF ReleasesAll(globalTeardown, d.ownNativeDpy)
          THEN <<"wlEglDestroyFormatSet", "wlEglDestroyFeedback">> \o
               (IF "wlDmaBufFeedback" \in objs
                THEN <<"zwp_linux_dmabuf_feedback_v1_destroy">>
                ELSE <<>>) \o
               DestroyCalls(objs)
          ELSE <<>>)

\* The pointers that are not NULL after the call: every release but the
\* one of wlEglDestroyFeedback is followed by an assignment of NULL.
PointersLeft(d, list, globalTeardown, nativeOk, objs) ==
    IF /\ terminateCalls(d, list, globalTeardown, nativeOk, objs) # <<>>
       /\ terminateDisplay(d, list, globalTeardown, nativeOk).res
       /\ ReleasesAll(globalTeardown, d.ownNativeDpy)
    THEN objs \cap {"wlDmaBufFeedback"}
    ELSE objs

(***************************************************************************)
(* Threads and calls.  A thread is idle or inside one exported call:       *)
(*   at = "acquired"    wlEglAcquireDisplay has returned the display       *)
(*   at = "locked"      it holds display->mutex; `was` is the initCount    *)
(*                      the display had when the mutex was taken           *)
(*   at = "unlocked"    the body is done and the mutex released; res and   *)
(*                      err are what the call will return                  *)
(*   at = "destroying"  inside the loop of wlEglDestroyAllDisplays, with   *)
(*                      `cursor` the displays still to visit, `res` the    *)
(*                      local res, and `was` the initCount of the display  *)
(*                      terminated last                                    *)
(***************************************************************************)
Idle == [at |-> "idle", op |-> "none", h |-> 0, data |-> 0,
         cursor |-> <<>>, res |-> FALSE, err |-> "none", was |-> 0,
         seen |-> 0, key |-> <<>>]

\* What a call of wlEglGetPlatformDisplayExport did on its way: whether it
\* went past the scan of the list, the address calloc returned, the
\* connection wl_display_connect opened, the connections passed to
\* wl_display_disconnect and the address passed to free (0 for none).
NoBuild == [missed |-> FALSE, display |-> 0, opened |-> 0,
            disconnected |-> {}, freed |-> 0]

NoCall == [op |-> "none", result |-> 0, err |-> "none", build |-> NoBuild]

ZeroLaw == [n |-> 0, m |-> 0, nat |-> 0, ok |-> FALSE]

HookOps == {"initialize", "terminate", "queryDisplayAttrib"}

DpInit ==
    /\ mem = [h \in Handles |-> "unused"]
    /\ dpy = [h \in Handles |-> ZeroDisplay]
    /\ wlEglDisplayList = <<>>
    /\ deviceDpyList = [d \in Data |-> <<>>]
    /\ apiLock = 0
    /\ mutex = [h \in Handles |-> 0]
    /\ pc = [t \in Threads |-> Idle]
    /\ lastCall = NoCall
    /\ returned = {}
    /\ law = [h \in Handles |-> ZeroLaw]

\* A fault, or a walk of a corrupted list that never ends: the process
\* makes no further step.
DpAbort ==
    /\ crashed' = TRUE
    /\ mem' = [h \in Handles |-> "unused"]
    /\ dpy' = [h \in Handles |-> ZeroDisplay]
    /\ wlEglDisplayList' = <<>>
    /\ deviceDpyList' = [d \in Data |-> <<>>]
    /\ apiLock' = 0
    /\ mutex' = [h \in Handles |-> 0]
    /\ pc' = [t \in Threads |-> Idle]
    /\ lastCall' = NoCall
    /\ returned' = {}
    /\ law' = [h \in Handles |-> ZeroLaw]
    /\ UNCHANGED <<NDEBUG, fsVars, fbVars, devVars>>

(***************************************************************************)
(* wlEglGetPlatformDisplayExport                                           *)
(***************************************************************************)
\* The places where the call can be made to fail by its arguments or its
\* environment, in the order of the code; "none" is the run without a
\* failure.
FailPoints ==
    {"none", "platform", "attrib", "calloc", "connect", "protocols",
     "notNV", "noProtocol", "queryDevices", "listAlloc", "internal",
     "drmName", "open"}

\* The error the call sets at each failure; "none" where it sets none.
FailError(fail) ==
    CASE fail = "platform" -> "EGL_BAD_PARAMETER"
      [] fail = "attrib" -> "EGL_BAD_ATTRIBUTE"
      [] fail \in {"calloc", "connect", "protocols"} -> "EGL_BAD_ALLOC"
      [] OTHER -> "none"

\* Mutant of the device handed to wlGetInternalDisplay: the requested one.
PassRequestedDevice(requestedDevice) == requestedDevice

\* The device handed to wlGetInternalDisplay: the local eglDevice, which is
\* NULL from its declaration on.
SelectedDevice(requestedDevice) == 0

\* The display the successful call builds at address h.
NewDisplay(h, data, nativeDpy, requestedDevice, useInitRefCount) ==
    [ZeroDisplay EXCEPT
        !.data = data,
        !.nativeDpy = IF nativeDpy = 0 THEN OwnedConn(h) ELSE nativeDpy,
        !.ownNativeDpy = (nativeDpy = 0),
        !.useInitRefCount = useInitRefCount,
        !.requestedDevice = requestedDevice,
        !.devDpy = SelectedDevice(requestedDevice)]

Returns(op, result, err) ==
    lastCall' = [op |-> op, result |-> result, err |-> err,
                 build |-> NoBuild]

\* The display at h when the call leaves at `fail`, "none" for the
\* successful end: the fields are set after calloc, the connection is
\* opened (and ownNativeDpy set) when nativeDpy is NULL and
\* wl_display_connect succeeds, devDpy is set by wlGetInternalDisplay.
BuiltDisplay(h, data, nativeDpy, requestedDevice, useInitRefCount, fail) ==
    LET new == NewDisplay(h, data, nativeDpy, requestedDevice,
                          useInitRefCount)
    IN
    IF fail = "connect"
    THEN [new EXCEPT !.nativeDpy = 0, !.ownNativeDpy = FALSE,
                     !.devDpy = NoDevDpy]
    ELSE IF fail \in {"none", "drmName", "open"} THEN new
    ELSE [new EXCEPT !.devDpy = NoDevDpy]

\* Mutant of the fail label: the connection of the display is
\* disconnected whoever opened it.
FailDisconnectsAny(display) ==
    IF display.nativeDpy # 0 THEN {display.nativeDpy} ELSE {}

\* The fail label: if (display && display->ownNativeDpy)
\* wl_display_disconnect(display->nativeDpy).
FailDisconnects(display) ==
    IF display.ownNativeDpy THEN {display.nativeDpy} ELSE {}

\* The return of wlEglGetPlatformDisplayExport after calloc returned the
\* address h: the successful end, or the fail label with its disconnect
\* and free(display).
ReturnsBuilt(h, display, fail) ==
    lastCall' =
        [op |-> "getPlatformDisplay",
         result |-> IF fail = "none" THEN h ELSE 0,
         err |-> FailError(fail),
         build |-> [missed |-> TRUE,
                    display |-> h,
                    opened |-> IF display.ownNativeDpy
                               THEN display.nativeDpy ELSE 0,
                    disconnected |-> IF fail = "none" THEN {}
                                     ELSE FailDisconnects(display),
                    freed |-> IF fail = "none" THEN 0 ELSE h]]

\* The return after calloc returned NULL: free(NULL), no disconnect.
ReturnsUnbuilt(fail) ==
    lastCall' = [op |-> "getPlatformDisplay", result |-> 0,
                 err |-> FailError(fail),
                 build |-> [NoBuild EXCEPT !.missed = TRUE]]

GetPlatformDisplay(t, data, nativeDpy, requestedDevice, useInitRefCount, fail) ==
    /\ ~crashed
    /\ pc[t].at = "idle"
    /\ apiLock = 0
    /\ IF fail \in {"platform", "attrib"}
       THEN /\ Returns("getPlatformDisplay", 0, FailError(fail))
            /\ UNCHANGED <<mem, dpy, wlEglDisplayList, deviceDpyList,
                           apiLock, mutex, pc, returned, law>>
            /\ UNCHANGED <<envVars, fsVars, fbVars, devVars>>
       ELSE
        \E fault \in Faults(ListHasFreed) :
        IF fault THEN DpAbort
        ELSE
        LET hit == FindDisplay(wlEglDisplayList, nativeDpy, useInitRefCount,
                               requestedDevice)
            key == <<nativeDpy, requestedDevice, useInitRefCount>>
            device == SelectedDevice(requestedDevice)
        IN
        IF hit # 0
        THEN /\ fail = "none"
             /\ Returns("getPlatformDisplay", hit, "none")
             /\ returned' = returned \cup {<<key, hit>>}
             /\ UNCHANGED <<mem, dpy, wlEglDisplayList, deviceDpyList,
                            apiLock, mutex, pc, law>>
             /\ UNCHANGED <<envVars, fsVars, fbVars, devVars>>
        ELSE IF fail = "calloc"
        THEN /\ ReturnsUnbuilt(fail)
             /\ UNCHANGED <<mem, dpy, wlEglDisplayList, deviceDpyList,
                            apiLock, mutex, pc, returned, law>>
             /\ UNCHANGED <<envVars, fsVars, fbVars, devVars>>
        ELSE
        \E h \in {a \in Handles : mem[a] # "live"} :
        IF wlEglIsWlEglDisplay(h)
        THEN \* calloc hands out a freed display that is still linked
             DpAbort
        ELSE
        /\ fail = "connect" => nativeDpy = 0
        /\ fail = "notNV" => requestedDevice = 0
        /\ fail = "internal" => FindDevDpy(deviceDpyList[data], device) = 0
        /\ IF fail \in {"connect", "protocols", "notNV", "noProtocol",
                        "queryDevices", "listAlloc", "internal"}
           THEN /\ ReturnsBuilt(h, BuiltDisplay(h, data, nativeDpy,
                                    requestedDevice, useInitRefCount, fail),
                                fail)
                /\ UNCHANGED <<mem, dpy, wlEglDisplayList, deviceDpyList,
                               apiLock, mutex, pc, returned, law>>
           ELSE LET got == wlGetInternalDisplay(deviceDpyList[data],
                                                device, TRUE)
                IN
                /\ deviceDpyList' =
                        [deviceDpyList EXCEPT ![data] = got.list]
                /\ ReturnsBuilt(h, BuiltDisplay(h, data, nativeDpy,
                                    requestedDevice, useInitRefCount, fail),
                                fail)
                /\ IF fail \in {"drmName", "open"}
                   THEN /\ UNCHANGED <<mem, dpy, wlEglDisplayList, apiLock,
                                       mutex, pc, returned, law>>
                   ELSE /\ mem' = [mem EXCEPT ![h] = "live"]
                        /\ dpy' = [dpy EXCEPT ![h] =
                                NewDisplay(h, data, nativeDpy,
                                           requestedDevice, useInitRefCount)]
                        /\ wlEglDisplayList' = <<h>> \o wlEglDisplayList
                        /\ mutex' = [mutex EXCEPT ![h] = 0]
                        /\ law' = [law EXCEPT ![h] = ZeroLaw]
                        /\ returned' = returned \cup {<<key, h>>}
                        /\ UNCHANGED <<apiLock, pc>>
        /\ UNCHANGED <<envVars, fsVars, fbVars, devVars>>

(***************************************************************************)
(* wlEglAcquireDisplay, the hooks, wlEglReleaseDisplay                     *)
(***************************************************************************)
Bool(b) == IF b THEN 1 ELSE 0

hookFrame == <<envVars, fsVars, fbVars, devVars>>

\* wlEglAcquireDisplay at the start of hook `op` called with address h.
AcquireDisplay(t, h, op) ==
    /\ ~crashed
    /\ pc[t].at = "idle"
    /\ apiLock = 0
    /\ \E fault \in Faults(ListHasFreed) :
        IF fault THEN DpAbort
        ELSE IF wlEglIsWlEglDisplay(h)
        THEN /\ dpy' = [dpy EXCEPT ![h].refCount = @ + 1]
             /\ pc' = [pc EXCEPT ![t] =
                        [Idle EXCEPT !.at = "acquired", !.op = op, !.h = h]]
             /\ lastCall' = NoCall
             /\ UNCHANGED <<mem, wlEglDisplayList, deviceDpyList, apiLock,
                            mutex, returned, law>>
             /\ UNCHANGED hookFrame
        ELSE /\ Returns(op, 0, "none")
             /\ UNCHANGED <<mem, dpy, wlEglDisplayList, deviceDpyList,
                            apiLock, mutex, pc, returned, law>>
             /\ UNCHANGED hookFrame

\* pthread_mutex_lock(&display->mutex)
LockDisplay(t) ==
    /\ ~crashed
    /\ pc[t].at = "acquired"
    /\ mutex[pc[t].h] = 0
    /\ \E fault \in Faults(mem[pc[t].h] = "freed") :
        IF fault THEN DpAbort
        ELSE /\ mutex' = [mutex EXCEPT ![pc[t].h] = t]
             /\ pc' = [pc EXCEPT ![t].at = "locked",
                                 ![t].was = dpy[pc[t].h].initCount]
             /\ lastCall' = NoCall
             /\ UNCHANGED <<mem, dpy, wlEglDisplayList, deviceDpyList,
                            apiLock, returned, law>>
             /\ UNCHANGED hookFrame

\* Mutant of the end of a hook body: display->mutex is still held when
\* the hook goes on to wlEglReleaseDisplay.
UnlocksLate(t, res, err) ==
    /\ pc' = [pc EXCEPT ![t].at = "unlocked", ![t].res = res,
                        ![t].err = err]
    /\ lastCall' = NoCall
    /\ UNCHANGED <<mem, wlEglDisplayList, apiLock, mutex, returned>>
    /\ UNCHANGED hookFrame

\* The end of a hook body: the results are set, the mutex is released.
Unlocks(t, res, err) ==
    /\ mutex' = [mutex EXCEPT ![pc[t].h] = 0]
    /\ pc' = [pc EXCEPT ![t].at = "unlocked", ![t].res = res,
                        ![t].err = err]
    /\ lastCall' = NoCall
    /\ UNCHANGED <<mem, wlEglDisplayList, apiLock, returned>>
    /\ UNCHANGED hookFrame

\* The places where wlEglInitializeHook can fail after wlInternalInitialize.
InitFails == {"none", "queue", "roundtrip", "protocol", "roundtrip2"}

\* Mutant of the already-initialized path: initCount is raised whether or
\* not the display counts its initializations.
InitAgainAlwaysCounts(d) == d.initCount + 1

\* initCount after wlEglInitializeHook found the display initialized.
InitAgain(d) == IF d.useInitRefCount THEN d.initCount + 1 ELSE d.initCount

\* The run of calls on a handle after a successful eglInitialize made
\* when its initCount was `before`; only handles that count their
\* initializations are followed.
LawInit(l, before, counts) ==
    IF ~counts THEN ZeroLaw
    ELSE IF before = 0 THEN [n |-> 1, m |-> 0, nat |-> 0, ok |-> TRUE]
    ELSE IF l.ok /\ l.m = 0 THEN [l EXCEPT !.n = @ + 1]
    ELSE ZeroLaw

\* The run of calls on a handle after an eglTerminate that made `native`
\* native terminate calls and returned `res`.
LawTerminate(l, native, res) ==
    IF l.ok /\ l.m < l.n /\ res
    THEN [l EXCEPT !.m = @ + 1, !.nat = @ + native]
    ELSE ZeroLaw

\* The body of wlEglInitializeHook, from the lock to the unlock.
InitializeBody(t, nativeOk, fail, termOk) ==
    /\ ~crashed
    /\ pc[t].at = "locked"
    /\ pc[t].op = "initialize"
    /\ LET h == pc[t].h
           d == dpy[h]
           list == deviceDpyList[d.data]
       IN
       \E fault \in Faults(mem[h] = "freed") :
       IF fault THEN DpAbort
       ELSE IF d.initCount > 0
       THEN /\ nativeOk /\ termOk /\ fail = "none"
            /\ ~(d.useInitRefCount /\ d.initCount >= MaxInit)
            /\ dpy' = [dpy EXCEPT ![h].initCount = InitAgain(d)]
            /\ law' = [law EXCEPT ![h] = LawInit(@, d.initCount,
                                             d.useInitRefCount)]
            /\ UNCHANGED deviceDpyList
            /\ Unlocks(t, TRUE, "none")
       ELSE IF d.data \notin Data \/ d.devDpy = NoDevDpy
       THEN \* wlInternalInitialize(NULL)
            DpAbort
       ELSE IF FindDevDpy(list, d.devDpy) = 0
       THEN DpAbort
       ELSE
        LET i == FindDevDpy(list, d.devDpy)
            ini == wlInternalInitialize(list[i], nativeOk)
            list1 == [list EXCEPT ![i] = ini.devDpy]
        IN
        IF ~ini.res
        THEN /\ termOk /\ fail = "none"
             /\ law' = [law EXCEPT ![h] = ZeroLaw]
             /\ UNCHANGED <<dpy, deviceDpyList>>
             /\ Unlocks(t, FALSE, "none")
        ELSE IF fail = "none"
        THEN /\ termOk
             /\ dpy' = [dpy EXCEPT ![h].initCount = 1, ![h].bound = TRUE]
             /\ deviceDpyList' = [deviceDpyList EXCEPT ![d.data] = list1]
             /\ law' = [law EXCEPT ![h] = LawInit(@, 0, d.useInitRefCount)]
             /\ Unlocks(t, TRUE, "none")
        ELSE LET td == terminateDisplay(
                        [d EXCEPT !.initCount = 1, !.bound = TRUE],
                        list1, FALSE, termOk)
             IN
             /\ dpy' = [dpy EXCEPT ![h] = td.d]
             /\ deviceDpyList' = [deviceDpyList EXCEPT ![d.data] = td.list]
             /\ law' = [law EXCEPT ![h] = ZeroLaw]
             /\ Unlocks(t, FALSE, "EGL_BAD_ALLOC")

\* The body of wlEglTerminateHook.
TerminateBody(t, termOk) ==
    /\ ~crashed
    /\ pc[t].at = "locked"
    /\ pc[t].op = "terminate"
    /\ LET h == pc[t].h
           d == dpy[h]
       IN
       \E fault \in Faults(mem[h] = "freed") :
       IF fault THEN DpAbort
       ELSE IF d.data \notin Data THEN DpAbort
       ELSE
        LET td == terminateDisplay(d, deviceDpyList[d.data], FALSE, termOk)
        IN
        IF td.fault THEN DpAbort
        ELSE /\ dpy' = [dpy EXCEPT ![h] = td.d]
             /\ deviceDpyList' = [deviceDpyList EXCEPT ![d.data] = td.list]
             /\ law' = [law EXCEPT ![h] =
                            LawTerminate(@, td.native, td.res)]
             /\ Unlocks(t, td.res, "none")

\* The body of wlEglQueryDisplayAttribHook; `name` is "device" for
\* EGL_DEVICE_EXT, "track" for EGL_TRACK_REFERENCES_KHR, "other" for the
\* attributes passed on to the driver, whose answer is driverOk.
QueryBody(t, valueNull, name, driverOk) ==
    /\ ~crashed
    /\ pc[t].at = "locked"
    /\ pc[t].op = "queryDisplayAttrib"
    /\ LET h == pc[t].h
           d == dpy[h]
       IN
       \E fault \in Faults(mem[h] = "freed") :
       IF fault THEN DpAbort
       ELSE
        /\ name # "other" => driverOk
        /\ UNCHANGED <<dpy, deviceDpyList, law>>
        /\ IF valueNull
           THEN Unlocks(t, FALSE, "EGL_BAD_PARAMETER")
           ELSE IF d.initCount = 0
           THEN Unlocks(t, FALSE, "EGL_NOT_INITIALIZED")
           ELSE Unlocks(t, driverOk, "none")

\* Mutant of wlEglUnrefDisplay: the display is never freed.
UnrefNeverFrees(refCount) == FALSE

\* --display->refCount == 0
UnrefFrees(refCount) == refCount - 1 = 0

\* wlEglReleaseDisplay at the end of a hook, and the return of the hook.
ReleaseDisplay(t) ==
    /\ ~crashed
    /\ pc[t].at = "unlocked"
    /\ apiLock = 0
    /\ LET h == pc[t].h
           frees == UnrefFrees(dpy[h].refCount)
       IN
       \E fault \in Faults(mem[h] = "freed") :
       IF fault THEN DpAbort
       ELSE /\ dpy' = [dpy EXCEPT ![h].refCount = @ - 1]
            /\ mem' = [mem EXCEPT ![h] = IF frees THEN "freed" ELSE @]
            /\ pc' = [pc EXCEPT ![t] = Idle]
            /\ Returns(pc[t].op, Bool(pc[t].res), pc[t].err)
            /\ UNCHANGED <<wlEglDisplayList, deviceDpyList, apiLock, mutex,
                           returned, law>>
            /\ UNCHANGED hookFrame

(***************************************************************************)
(* wlEglDestroyAllDisplays                                                 *)
(***************************************************************************)
DestroyAllBegin(t, data) ==
    /\ ~crashed
    /\ pc[t].at = "idle"
    /\ apiLock = 0
    /\ apiLock' = t
    /\ pc' = [pc EXCEPT ![t] =
                [Idle EXCEPT !.at = "destroying", !.op = "destroyAll",
                             !.data = data, !.cursor = wlEglDisplayList,
                             !.res = TRUE]]
    /\ returned' = {}
    /\ lastCall' = NoCall
    /\ UNCHANGED <<mem, dpy, wlEglDisplayList, deviceDpyList, mutex, law>>
    /\ UNCHANGED hookFrame

\* One turn of the loop over wlEglDisplayList.
DestroyAllStep(t, termOk) ==
    /\ ~crashed
    /\ pc[t].at = "destroying"
    /\ pc[t].cursor # <<>>
    /\ LET h == Head(pc[t].cursor)
           d == dpy[h]
       IN
       \E fault \in Faults(mem[h] = "freed") :
       IF fault THEN DpAbort
       ELSE IF d.data # pc[t].data
       THEN /\ pc' = [pc EXCEPT ![t].cursor = Tail(@)]
            /\ lastCall' = NoCall
            /\ UNCHANGED <<mem, dpy, wlEglDisplayList, deviceDpyList,
                           apiLock, mutex, returned, law>>
            /\ UNCHANGED hookFrame
       ELSE
        LET td == terminateDisplay(d, deviceDpyList[d.data], TRUE, termOk)
            frees == UnrefFrees(d.refCount)
        IN
        /\ mutex[h] = 0
        /\ IF td.fault THEN DpAbort
           ELSE /\ dpy' = [dpy EXCEPT ![h] =
                            [td.d EXCEPT !.devDpy = NoDevDpy,
                                         !.refCount = @ - 1]]
                /\ deviceDpyList' =
                        [deviceDpyList EXCEPT ![d.data] = td.list]
                /\ wlEglDisplayList' = ListRemove(wlEglDisplayList, h)
                /\ mem' = [mem EXCEPT ![h] = IF frees THEN "freed" ELSE @]
                /\ law' = [law EXCEPT ![h] = ZeroLaw]
                /\ pc' = [pc EXCEPT ![t].cursor = Tail(@),
                                    ![t].res = td.res /\ @,
                                    ![t].was = d.initCount]
                /\ lastCall' = NoCall
                /\ UNCHANGED <<apiLock, mutex, returned>>
                /\ UNCHANGED hookFrame

\* The end of the loop: wlFreeAllInternalDisplays and the unlock.
DestroyAllEnd(t) ==
    /\ ~crashed
    /\ pc[t].at = "destroying"
    /\ pc[t].cursor = <<>>
    /\ deviceDpyList' = [deviceDpyList EXCEPT ![pc[t].data] =
                            wlFreeAllInternalDisplays(@)]
    /\ apiLock' = 0
    /\ pc' = [pc EXCEPT ![t] = Idle]
    /\ lastCall' = [op |-> "destroyAll", result |-> pc[t].data,
                    err |-> "none", build |-> NoBuild]
    /\ UNCHANGED <<mem, dpy, wlEglDisplayList, mutex, returned, law>>
    /\ UNCHANGED hookFrame

(***************************************************************************)
(* The calls the application makes.                                        *)
(***************************************************************************)
CreateCalls(t) ==
    \E data \in Data, nativeDpy \in NativeDpys,
       requestedDevice \in EglDevices, useInitRefCount \in BOOLEAN,
       fail \in FailPoints :
        GetPlatformDisplay(t, data, nativeDpy, requestedDevice,
                           useInitRefCount, fail)

HookSteps(t) ==
    \/ \E h \in Handles, op \in HookOps : AcquireDisplay(t, h, op)
    \/ LockDisplay(t)
    \/ \E nativeOk \in BOOLEAN, fail \in InitFails, termOk \in BOOLEAN :
            InitializeBody(t, nativeOk, fail, termOk)
    \/ \E termOk \in BOOLEAN : TerminateBody(t, termOk)
    \/ \E valueNull \in BOOLEAN, name \in {"device", "track", "other"},
          driverOk \in BOOLEAN :
            QueryBody(t, valueNull, name, driverOk)
    \/ ReleaseDisplay(t)

DestroySteps(t) ==
    \/ \E data \in Data : DestroyAllBegin(t, data)
    \/ \E termOk \in BOOLEAN : DestroyAllStep(t, termOk)
    \/ DestroyAllEnd(t)

\* The displays the application asks for in the specifications with
\* hooks: the default connection and a connection of its own, counting
\* initializations, and a connection with an explicit device, not counting.
AppKeys ==
    {<<0, 0, TRUE>>} \cup
    {<<c, 0, TRUE>> : c \in 1..MaxConn} \cup
    {<<c, e, FALSE>> : c \in 1..MaxConn, e \in 1..MaxEglDev}

AppCreates(t) ==
    \E data \in Data, key \in AppKeys :
        GetPlatformDisplay(t, data, key[1], key[2], key[3], "none")

\* The display the threads share in the specification with several
\* threads.
ThreadKeys == {<<1, 0, TRUE>>}

ThreadCreates(t) ==
    \E key \in ThreadKeys :
        GetPlatformDisplay(t, 1, key[1], key[2], key[3], "none")

\* Any calls of wlEglGetPlatformDisplayExport.
DirectoryNext == \E t \in Threads : CreateCalls(t)

\* One thread creating displays and calling hooks.
HooksNext == AppCreates(1) \/ HookSteps(1)

\* Several threads calling hooks.
ThreadsNext == \E t \in Threads : ThreadCreates(t) \/ HookSteps(t)

\* One thread making every call.
Next == AppCreates(1) \/ HookSteps(1) \/ DestroySteps(1)

(***************************************************************************)
(* Hooks on two displays that share one internal display.  The hooks hold  *)
(* the mutex of their own display only, so the reads and writes that       *)
(* wlInternalInitialize and wlInternalTerminate make of devDpy->initCount  *)
(* are steps of their own here: the test of the counter, the native call   *)
(* followed by the load of initCount++ or initCount--, and its store.      *)
(* pc[t].seen is the value the thread has read.                            *)
(***************************************************************************)
SharedKeys == {<<0, 0, FALSE>>, <<1, 0, FALSE>>}

SharedCreates(t) ==
    \E key \in SharedKeys :
        GetPlatformDisplay(t, 1, key[1], key[2], key[3], "none")

\* The internal display of the display the thread has locked.
SharedCount(t) ==
    LET d == dpy[pc[t].h]
        list == deviceDpyList[d.data]
    IN list[FindDevDpy(list, d.devDpy)].initCount

SetSharedCount(t, n) ==
    LET d == dpy[pc[t].h]
        list == deviceDpyList[d.data]
    IN deviceDpyList' = [deviceDpyList EXCEPT
                            ![d.data][FindDevDpy(list, d.devDpy)].initCount = n]

\* The display can be used: it has an internal display in the list.
HasShared(t) ==
    LET d == dpy[pc[t].h] IN
    /\ d.data \in Data
    /\ d.devDpy # NoDevDpy
    /\ FindDevDpy(deviceDpyList[d.data], d.devDpy) # 0

\* A step inside a hook body that keeps the mutex.
Goes(t, at, seen) ==
    /\ pc' = [pc EXCEPT ![t].at = at, ![t].seen = seen]
    /\ lastCall' = NoCall
    /\ UNCHANGED <<mem, wlEglDisplayList, apiLock, mutex, returned>>
    /\ UNCHANGED hookFrame

\* wlEglInitializeHook on a display that is initialized already.
InitializeAgain(t) ==
    /\ pc[t].at = "locked"
    /\ pc[t].op = "initialize"
    /\ dpy[pc[t].h].initCount > 0
    /\ InitializeBody(t, TRUE, "none", TRUE)

\* wlInternalInitialize: if (devDpy->initCount == 0)
InternalInitializeTest(t) ==
    /\ ~crashed
    /\ pc[t].at = "locked"
    /\ pc[t].op = "initialize"
    /\ dpy[pc[t].h].initCount = 0
    /\ \E fault \in Faults(mem[pc[t].h] = "freed") :
        IF fault \/ ~HasShared(t) THEN DpAbort
        ELSE /\ SharedCount(t) < MaxInit
             /\ Goes(t, "initTested", SharedCount(t))
             /\ UNCHANGED <<dpy, deviceDpyList, law>>

\* wlInternalInitialize: egl.initialize if the counter was seen at 0, then
\* the load of devDpy->initCount++.
InternalInitializeCall(t, nativeOk) ==
    /\ ~crashed
    /\ pc[t].at = "initTested"
    /\ UNCHANGED <<dpy, deviceDpyList>>
    /\ IF pc[t].seen = 0 /\ ~nativeOk
       THEN /\ law' = [law EXCEPT ![pc[t].h] = ZeroLaw]
            /\ Unlocks(t, FALSE, "none")
       ELSE /\ pc[t].seen # 0 => nativeOk
            /\ SharedCount(t) < MaxInit
            /\ Goes(t, "initLoaded", SharedCount(t))
            /\ UNCHANGED law

\* wlInternalInitialize: the store of devDpy->initCount++; the rest of
\* wlEglInitializeHook succeeds.
InternalInitializeStore(t) ==
    /\ ~crashed
    /\ pc[t].at = "initLoaded"
    /\ LET h == pc[t].h IN
        /\ SetSharedCount(t, pc[t].seen + 1)
        /\ dpy' = [dpy EXCEPT ![h].initCount = 1, ![h].bound = TRUE]
        /\ law' = [law EXCEPT ![h] = LawInit(@, 0, dpy[h].useInitRefCount)]
        /\ Unlocks(t, TRUE, "none")

\* wlEglTerminateHook on a display whose initCount is not 1: the internal
\* display is not touched.
TerminateNested(t) ==
    /\ pc[t].at = "locked"
    /\ pc[t].op = "terminate"
    /\ dpy[pc[t].h].initCount # 1
    /\ TerminateBody(t, TRUE)

\* wlInternalTerminate: if (devDpy->initCount > 0); with the counter at 0
\* the hook goes on and succeeds.
InternalTerminateTest(t) ==
    /\ ~crashed
    /\ pc[t].at = "locked"
    /\ pc[t].op = "terminate"
    /\ dpy[pc[t].h].initCount = 1
    /\ \E fault \in Faults(mem[pc[t].h] = "freed") :
        IF fault \/ ~HasShared(t) THEN DpAbort
        ELSE IF SharedCount(t) > 0
        THEN /\ Goes(t, "termTested", SharedCount(t))
             /\ UNCHANGED <<dpy, deviceDpyList, law>>
        ELSE LET h == pc[t].h IN
             /\ dpy' = [dpy EXCEPT ![h].initCount = 0, ![h].bound = FALSE]
             /\ law' = [law EXCEPT ![h] = LawTerminate(@, 0, TRUE)]
             /\ UNCHANGED deviceDpyList
             /\ Unlocks(t, TRUE, "none")

\* wlInternalTerminate: egl.terminate if the counter was seen at 1, then
\* the load of devDpy->initCount--.
InternalTerminateCall(t, nativeOk) ==
    /\ ~crashed
    /\ pc[t].at = "termTested"
    /\ UNCHANGED <<dpy, deviceDpyList>>
    /\ IF pc[t].seen = 1 /\ ~nativeOk
       THEN /\ law' = [law EXCEPT ![pc[t].h] = LawTerminate(@, 1, FALSE)]
            /\ Unlocks(t, FALSE, "none")
       ELSE /\ pc[t].seen # 1 => nativeOk
            /\ SharedCount(t) > 0 - MaxInit
            /\ Goes(t, "termLoaded", SharedCount(t))
            /\ UNCHANGED law

\* wlInternalTerminate: the store of devDpy->initCount--; the rest of
\* terminateDisplay.
InternalTerminateStore(t) ==
    /\ ~crashed
    /\ pc[t].at = "termLoaded"
    /\ LET h == pc[t].h IN
        /\ SetSharedCount(t, pc[t].seen - 1)
        /\ dpy' = [dpy EXCEPT ![h].initCount = 0, ![h].bound = FALSE]
        /\ law' = [law EXCEPT ![h] = ZeroLaw]
        /\ Unlocks(t, TRUE, "none")

SharedHookSteps(t) ==
    \/ \E h \in Handles, op \in {"initialize", "terminate"} :
            AcquireDisplay(t, h, op)
    \/ LockDisplay(t)
    \/ InitializeAgain(t)
    \/ InternalInitializeTest(t)
    \/ \E nativeOk \in BOOLEAN : InternalInitializeCall(t, nativeOk)
    \/ InternalInitializeStore(t)
    \/ TerminateNested(t)
    \/ InternalTerminateTest(t)
    \/ \E nativeOk \in BOOLEAN : InternalTerminateCall(t, nativeOk)
    \/ InternalTerminateStore(t)
    \/ ReleaseDisplay(t)

\* Several threads calling eglInitialize and eglTerminate on displays that
\* share an internal display.
SharedNext == \E t \in Threads : SharedCreates(t) \/ SharedHookSteps(t)

(***************************************************************************)
(* wlEglGetPlatformDisplayExport step by step, for calls of several        *)
(* threads: the checks of the arguments, wlExternalApiLock, the scan of    *)
(* wlEglDisplayList, and the construction up to the insertion or the       *)
(* failure exit, where the lock is released.  pc[t].key is the key of the  *)
(* call, pc[t].seen the length of the list when the call began (history).  *)
(***************************************************************************)
\* Mutant of wlExternalApiLock: the call never waits.
LockNeverWaits(lock) == TRUE

\* wlExternalApiLock returns once no thread is inside the lock.
CanLock(lock) == lock = 0

\* The failures after the lock has been taken.
LockedFailPoints == FailPoints \ {"platform", "attrib"}

\* The call has passed the checks of platform and attribs.
CreateEnter(t, data, key) ==
    /\ ~crashed
    /\ pc[t].at = "idle"
    /\ pc' = [pc EXCEPT ![t] =
                [Idle EXCEPT !.at = "entered", !.op = "getPlatformDisplay",
                             !.data = data, !.key = key,
                             !.seen = Len(wlEglDisplayList)]]
    /\ lastCall' = NoCall
    /\ UNCHANGED <<mem, dpy, wlEglDisplayList, deviceDpyList, apiLock,
                   mutex, returned, law>>
    /\ UNCHANGED hookFrame

\* wlExternalApiLock()
CreateLock(t) ==
    /\ ~crashed
    /\ pc[t].at = "entered"
    /\ CanLock(apiLock)
    /\ apiLock' = t
    /\ pc' = [pc EXCEPT ![t].at = "scanning"]
    /\ lastCall' = NoCall
    /\ UNCHANGED <<mem, dpy, wlEglDisplayList, deviceDpyList, mutex,
                   returned, law>>
    /\ UNCHANGED hookFrame

\* The scan of wlEglDisplayList; a hit unlocks and returns.
CreateScan(t) ==
    /\ ~crashed
    /\ pc[t].at = "scanning"
    /\ \E fault \in Faults(ListHasFreed) :
        IF fault THEN DpAbort
        ELSE
        LET key == pc[t].key
            hit == FindDisplay(wlEglDisplayList, key[1], key[3], key[2])
        IN
        /\ IF hit # 0
           THEN /\ Returns("getPlatformDisplay", hit, "none")
                /\ returned' = returned \cup {<<key, hit>>}
                /\ apiLock' = 0
                /\ pc' = [pc EXCEPT ![t] = Idle]
           ELSE /\ lastCall' = NoCall
                /\ pc' = [pc EXCEPT ![t].at = "creating"]
                /\ UNCHANGED <<apiLock, returned>>
        /\ UNCHANGED <<mem, dpy, wlEglDisplayList, deviceDpyList, mutex, law>>
        /\ UNCHANGED hookFrame

\* From calloc to wl_list_insert, or to the failure exit; both unlock.
CreateBuild(t, fail) ==
    /\ ~crashed
    /\ pc[t].at = "creating"
    /\ LET key == pc[t].key
           data == pc[t].data
           device == SelectedDevice(key[2])
       IN
       /\ apiLock' = 0
       /\ pc' = [pc EXCEPT ![t] = Idle]
       /\ UNCHANGED hookFrame
       /\ IF fail = "calloc"
          THEN /\ ReturnsUnbuilt(fail)
               /\ UNCHANGED <<mem, dpy, wlEglDisplayList, deviceDpyList,
                              mutex, returned, law>>
          ELSE
          \E h \in {a \in Handles : mem[a] # "live"} :
          /\ fail = "connect" => key[1] = 0
          /\ fail = "notNV" => key[2] = 0
          /\ fail = "internal" => FindDevDpy(deviceDpyList[data], device) = 0
          /\ IF fail \in {"connect", "protocols", "notNV", "noProtocol",
                          "queryDevices", "listAlloc", "internal"}
             THEN /\ ReturnsBuilt(h, BuiltDisplay(h, data, key[1], key[2],
                                                   key[3], fail), fail)
                  /\ UNCHANGED <<mem, dpy, wlEglDisplayList, deviceDpyList,
                                 mutex, returned, law>>
             ELSE LET got == wlGetInternalDisplay(deviceDpyList[data],
                                                  device, TRUE)
                  IN
                  /\ deviceDpyList' =
                        [deviceDpyList EXCEPT ![data] = got.list]
                  /\ ReturnsBuilt(h, BuiltDisplay(h, data, key[1], key[2],
                                                   key[3], fail), fail)
                  /\ IF fail \in {"drmName", "open"}
                     THEN /\ UNCHANGED <<mem, dpy, wlEglDisplayList, mutex,
                                         returned, law>>
                     ELSE /\ mem' = [mem EXCEPT ![h] = "live"]
                          /\ dpy' = [dpy EXCEPT ![h] =
                                NewDisplay(h, data, key[1], key[2], key[3])]
                          /\ wlEglDisplayList' = <<h>> \o wlEglDisplayList
                          /\ mutex' = [mutex EXCEPT ![h] = 0]
                          /\ law' = [law EXCEPT ![h] = ZeroLaw]
                          /\ returned' = returned \cup {<<key, h>>}

CreateSteps(t) ==
    \/ \E data \in Data, key \in AppKeys : CreateEnter(t, data, key)
    \/ CreateLock(t)
    \/ CreateScan(t)
    \/ \E fail \in LockedFailPoints : CreateBuild(t, fail)

\* Several threads calling wlEglGetPlatformDisplayExport.
CreatorsNext == \E t \in Threads : CreateSteps(t)

\* Every call that takes wlExternalApiLock or a display->mutex, step by
\* step: wlEglGetPlatformDisplayExport for the display the threads share,
\* the three hooks and wlEglDestroyAllDisplays.
LockSteps(t) ==
    \/ \E key \in ThreadKeys : CreateEnter(t, 1, key)
    \/ CreateLock(t)
    \/ CreateScan(t)
    \/ \E fail \in {"none", "calloc"} : CreateBuild(t, fail)
    \/ HookSteps(t)
    \/ DestroyAllBegin(t, 1)
    \/ \E termOk \in BOOLEAN : DestroyAllStep(t, termOk)
    \/ DestroyAllEnd(t)

\* Several threads making every call.
LocksNext == \E t \in Threads : LockSteps(t)

(***************************************************************************)
(* wlEglGetPlatformDisplayExport in an environment.  What the compositor   *)
(* and the process offer decides where the construction fails:             *)
(*   probeOk       the queue, the wrapper, the registry and its listener   *)
(*                 of getServerProtocolsInfo are created                   *)
(*   hasEglStream  the registry announces wl_eglstream_display             *)
(*   hasDmaBuf     the registry announces zwp_linux_dmabuf_v1, version 3   *)
(*                 or later                                                *)
(*   feedbackName  the default feedback of a version 4 zwp_linux_dmabuf_v1 *)
(*                 names a device with a render node                       *)
(*   wlDrmName     the registry announces wl_drm, which sends its device   *)
(*   nvidia        the named device opens and is an NVIDIA device          *)
(*   offload       __NV_PRIME_RENDER_OFFLOAD is 1                          *)
(***************************************************************************)
Environments ==
    [probeOk : BOOLEAN, hasEglStream : BOOLEAN, hasDmaBuf : BOOLEAN,
     feedbackName : BOOLEAN, wlDrmName : BOOLEAN, nvidia : BOOLEAN,
     offload : BOOLEAN]

\* protocols->drm_name != NULL after the roundtrips.
HasDrmName(env) == env.wlDrmName \/ (env.hasDmaBuf /\ env.feedbackName)

getServerProtocolsInfo(env) == env.probeOk /\ HasDrmName(env)

checkNvidiaDrmDevice(env) == HasDrmName(env) /\ env.nvidia

\* The failure exit the environment leads a construction to.
EnvFail(env, requestedDevice) ==
    IF ~getServerProtocolsInfo(env) THEN "protocols"
    ELSE IF ~env.offload /\ requestedDevice = 0 /\ ~checkNvidiaDrmDevice(env)
    THEN "notNV"
    ELSE IF ~env.hasEglStream /\ ~env.hasDmaBuf THEN "noProtocol"
    ELSE "none"

\* The call in environment env; every other step of it succeeds.
EnvCreate(t, data, nativeDpy, requestedDevice, useInitRefCount, env) ==
    GetPlatformDisplay(t, data, nativeDpy, requestedDevice, useInitRefCount,
        IF FindDisplay(wlEglDisplayList, nativeDpy, useInitRefCount,
                       requestedDevice) # 0
        THEN "none" ELSE EnvFail(env, requestedDevice))

EnvironmentNext ==
    \E data \in Data, nativeDpy \in NativeDpys, requestedDevice \in EglDevices,
       useInitRefCount \in BOOLEAN, env \in Environments :
        EnvCreate(1, data, nativeDpy, requestedDevice, useInitRefCount, env)

(***************************************************************************)
(* wayland-egldevice.c on its own: the calls a caller can make on the      *)
(* internal displays of a WlEglPlatformData, for any device and any        *)
(* outcome of the native calls.                                            *)
(***************************************************************************)
NoDevCall == [op |-> "none", data |-> 0, device |-> 0, ok |-> FALSE, res |-> FALSE, native |-> 0, before |-> <<>>, retry |-> FALSE]

\* The last call was a wlInternalTerminate on the internal display of
\* `device` that returned EGL_FALSE.
FollowsFailure(data, device) ==
    /\ devCall.op = "terminate"
    /\ ~devCall.res
    /\ devCall.data = data
    /\ devCall.device = device

\* No call of terminateDisplay has been made on its own.
NoTdCall ==
    [made |-> FALSE, before |-> ZeroDisplay, after |-> ZeroDisplay,
     objs |-> {}, left |-> {}, globalTeardown |-> FALSE, res |-> FALSE,
     calls |-> <<>>, native |-> 0, devBefore |-> 0, devAfter |-> 0]

DevInit == devCall = NoDevCall /\ tdCall = NoTdCall

\* What the calls of wayland-egldevice.c leave alone.
devFrame == <<envVars, fsVars, fbVars, mem, dpy, wlEglDisplayList, apiLock, mutex, pc, lastCall, returned, law, tdCall>>

\* The native terminate calls wlFreeAllInternalDisplays makes: one by
\* wlFreeInternalDisplay for every entry that is initialized.
FreeAllNative(list) == Cardinality({i \in 1..Len(list) : list[i].initCount > 0})

\* wlGetInternalDisplay(data, device).
DevGet(data, device, ok) ==
    /\ ~crashed
    /\ LET r == wlGetInternalDisplay(deviceDpyList[data], device, ok) IN
        /\ deviceDpyList' = [deviceDpyList EXCEPT ![data] = r.list]
        /\ devCall' = [op |-> "get", data |-> data, device |-> device,
                       ok |-> ok, res |-> r.devDpy # NoDevDpy, native |-> 0,
                       before |-> deviceDpyList[data],
                       retry |-> FollowsFailure(data, device)]
    /\ UNCHANGED devFrame

\* wlInternalInitialize on the internal display of `device`.
DevInitialize(data, device, nativeOk) ==
    /\ ~crashed
    /\ LET list == deviceDpyList[data]
           i == FindDevDpy(list, device)
       IN
        /\ i # 0
        /\ list[i].initCount < MaxInit
        /\ LET r == wlInternalInitialize(list[i], nativeOk) IN
            /\ deviceDpyList' = [deviceDpyList EXCEPT ![data][i] = r.devDpy]
            /\ devCall' = [op |-> "initialize", data |-> data,
                           device |-> device, ok |-> nativeOk, res |-> r.res,
                           native |-> r.native, before |-> list,
                           retry |-> FollowsFailure(data, device)]
    /\ UNCHANGED devFrame

\* wlInternalTerminate on the internal display of `device`.
DevTerminate(data, device, nativeOk) ==
    /\ ~crashed
    /\ LET list == deviceDpyList[data]
           i == FindDevDpy(list, device)
       IN
        /\ i # 0
        /\ LET r == wlInternalTerminate(list[i], nativeOk) IN
            /\ deviceDpyList' = [deviceDpyList EXCEPT ![data][i] = r.devDpy]
            /\ devCall' = [op |-> "terminate", data |-> data,
                           device |-> device, ok |-> nativeOk, res |-> r.res,
                           native |-> r.native, before |-> list,
                           retry |-> FollowsFailure(data, device)]
    /\ UNCHANGED devFrame

\* wlFreeAllInternalDisplays(data).
DevFreeAll(data) ==
    /\ ~crashed
    /\ deviceDpyList' = [deviceDpyList EXCEPT ![data] = wlFreeAllInternalDisplays(@)]
    /\ devCall' = [op |-> "freeAll", data |-> data, device |-> 0,
                   ok |-> TRUE, res |-> TRUE,
                   native |-> FreeAllNative(deviceDpyList[data]),
                   before |-> deviceDpyList[data], retry |-> FALSE]
    /\ UNCHANGED devFrame

\* terminateDisplay called on its own, on a display of platform data 1
\* bound to the internal display of device 0: initialized initCount times,
\* on its own connection or on the caller's, with the internal display
\* initialized devCount times.  An initialized display has an event queue
\* and a registry; which other pointers are set depends on the globals of
\* the compositor.  Each behaviour makes one call.
TerminateCall(initCount, ownNativeDpy, devCount, globalTeardown, nativeOk, others) ==
    /\ ~crashed
    /\ ~tdCall.made
    /\ LET objs == IF initCount = 0 THEN {}
                   ELSE {"wlEventQueue", "wlRegistry"} \cup others
           d == [ZeroDisplay EXCEPT
                    !.data = 1,
                    !.nativeDpy = IF ownNativeDpy THEN OwnedConn(1) ELSE 1,
                    !.ownNativeDpy = ownNativeDpy,
                    !.useInitRefCount = TRUE,
                    !.devDpy = 0,
                    !.initCount = initCount,
                    !.refCount = 1,
                    !.bound = initCount > 0]
           list == <<[eglDevice |-> 0, initCount |-> devCount]>>
           td == terminateDisplay(d, list, globalTeardown, nativeOk)
       IN
       /\ initCount > 0 => devCount > 0
       /\ tdCall' = [made |-> TRUE, before |-> d, after |-> td.d,
                     objs |-> objs,
                     left |-> PointersLeft(d, list, globalTeardown,
                                           nativeOk, objs),
                     globalTeardown |-> globalTeardown, res |-> td.res,
                     calls |-> terminateCalls(d, list, globalTeardown,
                                              nativeOk, objs),
                     native |-> td.native,
                     devBefore |-> devCount,
                     devAfter |-> td.list[1].initCount]
       /\ UNCHANGED <<envVars, fsVars, fbVars, dpVars, devCall>>

TerminateNext ==
    \E initCount \in 0..MaxInit, ownNativeDpy \in BOOLEAN,
       devCount \in 0..MaxInit, globalTeardown \in BOOLEAN,
       nativeOk \in BOOLEAN,
       others \in SUBSET (ProtocolObjects \ {"wlRegistry"}) :
        TerminateCall(initCount, ownNativeDpy, devCount, globalTeardown,
                      nativeOk, others)


DeviceNext ==
    \E data \in Data :
        \/ \E device \in EglDevices, ok \in BOOLEAN :
            \/ DevGet(data, device, ok)
            \/ DevInitialize(data, device, ok)
            \/ DevTerminate(data, device, ok)
        \/ DevFreeAll(data)

EnvInit ==
    /\ NDEBUG \in BOOLEAN
    /\ crashed = FALSE

\* The state at load, in a build with or without NDEBUG.
InitAnyBuild == EnvInit /\ FsInit /\ FbInit /\ DpInit /\ DevInit

\* The state at load where no assert that depends on the build is reached.
Init ==
    NDEBUG = FALSE /\ crashed = FALSE /\ FsInit /\ FbInit /\ DpInit /\ DevInit

SpecFormatSet == InitAnyBuild /\ [][FsNext]_vars

\* The tables are whole, so that no assert depends on the build.
SpecFeedback == Init /\ [][FbNext]_vars

InitContract ==
    NDEBUG = FALSE /\ crashed = FALSE /\ FsInit /\ FbInitTracked /\ DpInit /\ DevInit
SpecFeedbackContract == InitContract /\ [][FbContractNext]_vars
SpecFeedbackTracked == InitContract /\ [][FbNext]_vars

SpecFormatTable == InitAnyBuild /\ [][FtNext]_vars

SpecDisplayFormats == Init /\ [][FsLifeNext]_vars

SpecFeedbackLife == Init /\ [][FbLifeNext]_vars

SpecDirectory == Init /\ [][DirectoryNext]_vars

SpecHooks == Init /\ [][HooksNext]_vars

SpecThreads == Init /\ [][ThreadsNext]_vars

Spec == Init /\ [][Next]_vars

SpecDevice == Init /\ [][DeviceNext]_vars

SpecSharedDevice == Init /\ [][SharedNext]_vars

SpecCreators == Init /\ [][CreatorsNext]_vars

SpecLocks == Init /\ [][LocksNext]_vars

SpecTerminate == Init /\ [][TerminateNext]_vars

SpecEnvironment == Init /\ [][EnvironmentNext]_vars

(***************************************************************************)
(* Properties of the format/modifier set (SpecFormatSet).                  *)
(***************************************************************************)
FormatsDistinct(fmts) ==
    \A f, g \in 1..Len(fmts) : fmts[f].format = fmts[g].format => f = g

ModifiersDistinct(fmts) ==
    \A f \in 1..Len(fmts) :
        \A m, n \in 1..Len(fmts[f].modifiers) :
            fmts[f].modifiers[m] = fmts[f].modifiers[n] => m = n

\* C10: as long as no realloc has failed, every call of wlEglFormatSetAdd
\* leaves a set whose format codes are pairwise distinct, whose modifiers
\* are pairwise distinct within each format, and whose pairs are exactly
\* the pairs added so far; a call with a pair the set already held leaves
\* the set as it was (so (F, M2) after (F, M1) gives one entry for F with
\* both modifiers).
C10_SetOfAddedPairs ==
    [][~fallocFailed' =>
        /\ FormatsDistinct(fset'.dmaBufFormats)
        /\ ModifiersDistinct(fset'.dmaBufFormats)
        /\ PairsOf(fset'.dmaBufFormats) = fadded'
        /\ flast'.present => fset' = fset]_vars

\* A pair was added again to a set that holds one format with two
\* modifiers next to another format.
C10_Witness ==
    /\ ~fallocFailed
    /\ flast.present
    /\ Len(fset.dmaBufFormats) = 2
    /\ \E f \in 1..2 : Len(fset.dmaBufFormats[f].modifiers) = 2

(***************************************************************************)
(* Properties of the feedback listener (SpecFeedback, SpecFormatTable).    *)
(***************************************************************************)
TrancheAsAnnounced(tranche, group) ==
    /\ tranche.drmDev = group.dev
    /\ tranche.supportsScanout = group.scanout
    /\ PairsOf(tranche.formatSet.dmaBufFormats) = group.pairs

CommittedAsAnnounced ==
    /\ Len(feedback.tranches) = Len(gList)
    /\ \A i \in 1..Len(gList) :
            TrancheAsAnnounced(feedback.tranches[i], gList[i])

\* C6: once the first cycle has been closed by done, the committed list
\* holds one tranche per tranche_done, in arrival order, each with the
\* target device, the scanout flag and the (format, modifier) pairs its
\* group of events announced.
C6_CycleCommitsGroups ==
    cycle = 1 => CommittedAsAnnounced

\* The same for the cycles in which no realloc failed while the format
\* sets were filled.
CycleCommitsGroupsIfAllocated ==
    (cycle = 1 /\ ~fbAllocFailed) => CommittedAsAnnounced

\* Two different tranches were committed in the first cycle, the first
\* with formats, one of them for scanout.
C6_Witness ==
    /\ cycle = 1
    /\ ~fbAllocFailed
    /\ Len(feedback.tranches) = 2
    /\ feedback.tranches[1] # feedback.tranches[2]
    /\ feedback.tranches[1].formatSet.dmaBufFormats # <<>>
    /\ \E i \in 1..2 : feedback.tranches[i].supportsScanout
    /\ \E i \in 1..2 : feedback.tranches[i].drmDev # 0

\* The step is one of the four events that call
\* dmabuf_feedback_check_reset_tranches.
ResettingEvent ==
    \/ \E dev \in DevIds : dmabuf_feedback_main_device(dev)
    \/ \E dev \in DevIds : dmabuf_feedback_tranche_target_device(dev)
    \/ \E flags \in FlagValues : dmabuf_feedback_tranche_flags(flags)
    \/ \E indices \in IndexArrays, allocOk \in BOOLEAN :
            dmabuf_feedback_tranche_formats(indices, allocOk)

\* C7: a main_device, tranche_target_device, tranche_flags or
\* tranche_formats event handled while feedbackDone is set leaves the
\* committed list empty and feedbackDone clear; handled while feedbackDone
\* is clear it leaves the committed list as it was.
C7_LazyReset ==
    [][(ResettingEvent /\ ~crashed') =>
        IF feedback.feedbackDone
        THEN /\ feedback'.tranches = <<>>
             /\ ~feedback'.feedbackDone
        ELSE feedback'.tranches = feedback.tranches]_vars

\* The last event was the first of a new cycle and dropped the tranches
\* of the cycle before.
C7_Witness ==
    /\ lastEv.cleared
    /\ cycle = 2
    /\ ~feedback.feedbackDone
    /\ feedback.tranches = <<>>
    /\ ~crashed

\* Every entry of `old` is still in `new`, at its place, with its
\* modifiers at their places.
KeepsEntries(old, new) ==
    /\ Len(old) <= Len(new)
    /\ \A f \in 1..Len(old) :
        /\ new[f].format = old[f].format
        /\ Len(old[f].modifiers) <= Len(new[f].modifiers)
        /\ \A m \in 1..Len(old[f].modifiers) :
                new[f].modifiers[m] = old[f].modifiers[m]

\* C8, for the events in which no realloc fails: a tranche_formats event
\* ends without an error state, and the working tranche's format set is
\* afterwards what it was before plus exactly the table entries named by
\* the in-range indices.
C8_FormatsEventAddsNamedEntries ==
    [][\A indices \in IndexArrays :
        dmabuf_feedback_tranche_formats(indices, TRUE) =>
            /\ ~crashed'
            /\ KeepsEntries(feedback.tmpTranche.formatSet.dmaBufFormats,
                            feedback'.tmpTranche.formatSet.dmaBufFormats)
            /\ PairsOf(feedback'.tmpTranche.formatSet.dmaBufFormats) =
                 PairsOf(feedback.tmpTranche.formatSet.dmaBufFormats) \cup
                 NamedPairs(feedback.formatTable, indices)]_vars

\* C9: a format_table event whose size is not a multiple of the entry size
\* either stops the process at the size check or returns with nothing
\* mapped and the format table, its length included, as it was.
C9_OddSizeRejected ==
    [][\A size \in TableSizes, mmapOk \in BOOLEAN :
        (dmabuf_feedback_format_table(size, mmapOk)
            /\ size % EntrySize # 0) =>
                \/ crashed'
                \/ feedback'.formatTable = feedback.formatTable]_vars

(***************************************************************************)
(* Properties of the display list (SpecDirectory, SpecHooks, SpecThreads,  *)
(* Spec).                                                                  *)
(***************************************************************************)
\* The key of a directory entry: the connection given by the caller, or 0
\* for the default connection the entry owns, the requested device and the
\* flag.
EntryKey(d) ==
    <<IF d.ownNativeDpy THEN 0 ELSE d.nativeDpy, d.requestedDevice,
      d.useInitRefCount>>

\* C1: in a run of wlEglGetPlatformDisplayExport calls, the calls made
\* with one (nativeDpy, requestedDevice, useInitRefCount) all return the
\* same handle, no two entries of wlEglDisplayList have the same key, and
\* a call with nativeDpy NULL is answered with an entry that owns its
\* connection.
C1_OneHandlePerKey ==
    /\ \A p, q \in returned : p[1] = q[1] => p[2] = q[2]
    /\ \A i, j \in 1..Len(wlEglDisplayList) :
            EntryKey(dpy[wlEglDisplayList[i]]) =
                EntryKey(dpy[wlEglDisplayList[j]]) => i = j
    /\ \A p \in returned : p[1][1] = 0 => dpy[p[2]].ownNativeDpy

\* A call with nativeDpy NULL has just been answered with the older of two
\* listed displays, the one that owns its connection.
C1_Witness ==
    /\ lastCall.op = "getPlatformDisplay"
    /\ Len(wlEglDisplayList) = 2
    /\ lastCall.result = wlEglDisplayList[2]
    /\ dpy[wlEglDisplayList[2]].ownNativeDpy
    /\ \E p \in returned : p[1][1] = 0 /\ p[2] = lastCall.result

\* C2, for the runs in which every terminate returns success: while a
\* handle that counts its initializations is in a run of n successful
\* initialize calls followed by terminate calls, the handle is allocated,
\* no native terminate call is made before the n-th terminate, and after
\* the n-th terminate exactly one has been made and initCount is 0.
C2_BalanceLaw ==
    \A h \in Handles :
        (dpy[h].useInitRefCount /\ law[h].ok /\ law[h].n >= 1) =>
            /\ mem[h] = "live"
            /\ law[h].m < law[h].n => law[h].nat = 0
            /\ law[h].m = law[h].n =>
                    (law[h].nat = 1 /\ dpy[h].initCount = 0)

\* The threads between wlEglAcquireDisplay and wlEglReleaseDisplay.
Holders(h) ==
    {t \in Threads : pc[t].at \in {"acquired", "locked", "unlocked"}
                        /\ pc[t].h = h}

\* C3: whatever the interleaving of the threads' acquire/release pairs,
\* no refCount is negative and a display that a thread has acquired and not
\* yet released is allocated.
C3_HeldHandleIsAllocated ==
    \A h \in Handles :
        /\ dpy[h].refCount >= 0
        /\ Holders(h) # {} => mem[h] = "live"

\* C4: as long as wlEglDestroyAllDisplays is not called, every display
\* linked in wlEglDisplayList is allocated.
C4_ListedHandleIsAllocated ==
    \A i \in 1..Len(wlEglDisplayList) : mem[wlEglDisplayList[i]] = "live"

\* C5: a turn of the loop of wlEglDestroyAllDisplays(T) leaves every
\* display of another table as it was and where it was, and the internal
\* displays of the other tables too; when the call ends, no display of T
\* is listed and the internal display list of T is empty.
C5_DestroyAllOfOneTable ==
    [][\A t \in Threads :
        /\ ((\E termOk \in BOOLEAN : DestroyAllStep(t, termOk))
                /\ ~crashed') =>
            /\ \A h \in Handles : dpy[h].data # pc[t].data =>
                /\ dpy'[h] = dpy[h]
                /\ wlEglIsWlEglDisplay(h) =>
                    \E i \in 1..Len(wlEglDisplayList') :
                        wlEglDisplayList'[i] = h
            /\ \A T \in Data \ {pc[t].data} :
                    deviceDpyList'[T] = deviceDpyList[T]
        /\ DestroyAllEnd(t) =>
            /\ \A i \in 1..Len(wlEglDisplayList') :
                    dpy'[wlEglDisplayList'[i]].data # pc[t].data
            /\ deviceDpyList'[pc[t].data] = <<>>
            /\ \A T \in Data \ {pc[t].data} :
                    deviceDpyList'[T] = deviceDpyList[T]
            /\ UNCHANGED <<dpy, wlEglDisplayList>>]_vars

\* wlEglDestroyAllDisplays(T) has just returned: it removed a display of
\* T, and an initialized display of another table is still listed.
C5_Witness ==
    /\ lastCall.op = "destroyAll"
    /\ \E h \in Handles :
        /\ ~wlEglIsWlEglDisplay(h)
        /\ mem[h] # "unused"
        /\ dpy[h].data = lastCall.result
    /\ \E i \in 1..Len(wlEglDisplayList) :
        /\ dpy[wlEglDisplayList[i]].data # lastCall.result
        /\ dpy[wlEglDisplayList[i]].initCount > 0

\* The display at h is linked in wlEglDisplayList.
Listed(h) == \E i \in 1..Len(wlEglDisplayList) : wlEglDisplayList[i] = h

\* C11: wlEglAcquireDisplay called with a display that is linked in
\* wlEglDisplayList hands that display to the caller and raises its
\* refCount by one, leaving every other display as it was; called with any
\* other value it returns NULL and changes no display.
C11_AcquireOnlyListed ==
    [][\A t \in Threads, h \in Handles, op \in HookOps :
        (pc[t].at = "idle" /\ ~crashed' /\ pc'[t].at # "destroying"
            /\ AcquireDisplay(t, h, op)) =>
            IF Listed(h)
            THEN /\ pc'[t].at = "acquired"
                 /\ pc'[t].h = h
                 /\ dpy' = [dpy EXCEPT ![h].refCount = @ + 1]
            ELSE /\ pc' = pc
                 /\ lastCall'.op = op
                 /\ lastCall'.result = 0
                 /\ dpy' = dpy]_vars

\* A hook was called with a display that wlEglDestroyAllDisplays had
\* unlinked: the list is empty, so the call ended at wlEglAcquireDisplay.
C11_Witness ==
    /\ lastCall.op \in HookOps
    /\ lastCall.result = 0
    /\ wlEglDisplayList = <<>>
    /\ \E h \in Handles : mem[h] # "unused"

\* The body of the hook `op` has just run in thread t and ended with the
\* unlock.
BodyReturns(t, op) ==
    /\ pc[t].at = "locked"
    /\ pc[t].op = op
    /\ pc'[t].at = "unlocked"

\* C12: a display that does not count its initializations has initCount 0
\* or 1; eglInitialize on a display with initCount > 0 succeeds, calls
\* nothing on the internal display, and leaves initCount as it was, or one
\* higher when the display counts; one successful eglTerminate takes a
\* display that does not count to initCount 0.
C12_InitializeAgain ==
    [][/\ \A h \in Handles :
            ~dpy'[h].useInitRefCount => dpy'[h].initCount \in {0, 1}
       /\ \A t \in Threads :
            LET h == pc[t].h IN
            /\ (BodyReturns(t, "initialize") /\ dpy[h].initCount > 0) =>
                /\ pc'[t].res
                /\ deviceDpyList' = deviceDpyList
                /\ dpy'[h].initCount =
                        dpy[h].initCount + Bool(dpy[h].useInitRefCount)
            /\ (BodyReturns(t, "terminate") /\ ~dpy[h].useInitRefCount
                    /\ pc'[t].res) =>
                dpy'[h].initCount = 0]_vars

\* eglInitialize has just succeeded on a display that does not count and
\* was initialized already.
C12_Witness ==
    \E t \in Threads :
        /\ pc[t].at = "unlocked"
        /\ pc[t].op = "initialize"
        /\ pc[t].res
        /\ pc[t].was = 1
        /\ ~dpy[pc[t].h].useInitRefCount
        /\ dpy[pc[t].h].initCount = 1

\* C13: eglTerminate on a display with initCount > 1 returns success and
\* lowers initCount by one; no other field of the display (its internal
\* display, its protocol objects, format set, feedback and queue), no other
\* display and no internal display changes.  On a display with initCount 0
\* it returns success and changes no display and no internal display.
C13_NestedTerminate ==
    [][\A t \in Threads :
        LET h == pc[t].h IN
        (BodyReturns(t, "terminate") /\ dpy[h].initCount # 1) =>
            /\ pc'[t].res
            /\ deviceDpyList' = deviceDpyList
            /\ dpy' = [dpy EXCEPT ![h].initCount =
                            IF @ = 0 THEN 0 ELSE @ - 1]]_vars

\* eglTerminate has just taken an initialized display from initCount 2 to
\* 1.
C13_Witness ==
    \E t \in Threads :
        /\ pc[t].at = "unlocked"
        /\ pc[t].op = "terminate"
        /\ pc[t].res
        /\ pc[t].was = 2
        /\ dpy[pc[t].h].initCount = 1
        /\ dpy[pc[t].h].bound

\* C14: when eglInitialize on a display with initCount 0 fails after
\* wlInternalInitialize has succeeded (no queue, a failed round trip, no
\* protocol), it returns with the display's initCount 0, the internal
\* displays' counters as they were before the call, and an error set.
C14_FailedInitializeUnwinds ==
    [][\A t \in Threads, nativeOk \in BOOLEAN, termOk \in BOOLEAN,
          fail \in InitFails \ {"none"} :
        (pc[t].at = "locked" /\ ~crashed'
            /\ InitializeBody(t, nativeOk, fail, termOk)) =>
            /\ ~pc'[t].res
            /\ pc'[t].err # "none"
            /\ dpy'[pc[t].h].initCount = 0
            /\ deviceDpyList' = deviceDpyList]_vars

(***************************************************************************)
(* Properties of the internal displays (SpecDevice).                       *)
(***************************************************************************)
\* The entry of `device` in `list`.
DevEntry(list, device) == list[FindDevDpy(list, device)]

\* `list` with the entry of `device` left out.
DevOthers(list, device) == SelectSeq(list, LAMBDA e : e.eglDevice # device)

CountsNotNegative ==
    \A data \in Data : \A i \in 1..Len(deviceDpyList[data]) :
        deviceDpyList[data][i].initCount >= 0

TerminateStepLaw ==
    \A data \in Data, device \in EglDevices, nativeOk \in BOOLEAN :
        DevTerminate(data, device, nativeOk) =>
            LET list == deviceDpyList[data]
                n == DevEntry(list, device).initCount
                after == deviceDpyList'[data]
            IN
            /\ devCall'.native = (IF n = 1 THEN 1 ELSE 0)
            /\ n = 0 => devCall'.res /\ after = list
            /\ n > 1 => /\ devCall'.res
                        /\ DevEntry(after, device).initCount = n - 1
                        /\ DevOthers(after, device) = DevOthers(list, device)
                        /\ Len(after) = Len(list)

\* The calls of wlInternalTerminate one at a time: the native terminate is
\* called exactly when the initCount of the internal display is 1; with
\* initCount 0 the call returns EGL_TRUE and changes nothing, with
\* initCount above 1 it only decrements the counter.
TerminateCallLaw == []CountsNotNegative /\ [][TerminateStepLaw]_vars

TerminateAtOneReached ==
    /\ devCall.op = "terminate"
    /\ devCall.res
    /\ devCall.native = 1
    /\ DevEntry(devCall.before, devCall.device).initCount = 1
    /\ DevEntry(deviceDpyList[devCall.data], devCall.device).initCount = 0

\* C15: wlInternalTerminate calls the native terminate only when the
\* initCount of the internal display is 1, returns EGL_TRUE without a
\* change when it is 0 and only decrements it when it is above 1; hence no
\* initCount is negative in any reachable state.  Stated here for the
\* calls made by hooks of several threads on displays that share the
\* internal display (SpecSharedDevice).
C15_CountNeverNegative ==
    \A data \in Data : \A i \in 1..Len(deviceDpyList[data]) :
        ~(deviceDpyList[data][i].initCount < 0)

\* C16: when egl.terminate fails inside wlInternalTerminate the call returns
\* EGL_FALSE and the initCount of the internal display stays 1; the next
\* wlInternalTerminate on it calls egl.terminate again, and the next
\* wlInternalInitialize on it succeeds without a native call.
C16_FailedTeardownKeepsCount ==
    [][\A data \in Data, device \in EglDevices, nativeOk \in BOOLEAN :
        LET list == deviceDpyList[data]
            after == deviceDpyList'[data]
        IN
        /\ DevTerminate(data, device, nativeOk) =>
            /\ ~devCall'.res <=> (DevEntry(list, device).initCount = 1 /\ ~nativeOk)
            /\ ~devCall'.res =>
                /\ devCall'.native = 1
                /\ after = list
                /\ DevEntry(after, device).initCount = 1
            /\ FollowsFailure(data, device) => devCall'.native = 1
        /\ (FollowsFailure(data, device) /\ DevInitialize(data, device, nativeOk)) =>
            /\ devCall'.res
            /\ devCall'.native = 0
            /\ DevEntry(after, device).initCount = 2]_vars

C16_Witness ==
    /\ devCall.op = "terminate"
    /\ devCall.retry
    /\ devCall.ok
    /\ devCall.res
    /\ devCall.native = 1
    /\ DevEntry(deviceDpyList[devCall.data], devCall.device).initCount = 0

\* C17: wlInternalInitialize calls egl.initialize exactly when the
\* initCount of the internal display is 0; when it returns EGL_TRUE the
\* counter has grown by exactly one, whether or not the native call was
\* made; when the native call fails it returns EGL_FALSE and the counter
\* is still 0.
C17_InitializeNativeOnlyAtZero ==
    [][\A data \in Data, device \in EglDevices, nativeOk \in BOOLEAN :
        DevInitialize(data, device, nativeOk) =>
            LET list == deviceDpyList[data]
                n == DevEntry(list, device).initCount
                after == deviceDpyList'[data]
            IN
            /\ devCall'.native = (IF n = 0 THEN 1 ELSE 0)
            /\ devCall'.res <=> (n > 0 \/ nativeOk)
            /\ devCall'.res =>
                /\ DevEntry(after, device).initCount = n + 1
                /\ DevOthers(after, device) = DevOthers(list, device)
                /\ Len(after) = Len(list)
            /\ ~devCall'.res => n = 0 /\ after = list]_vars

C17_Witness ==
    /\ devCall.op = "initialize"
    /\ devCall.res
    /\ devCall.native = 0
    /\ ~devCall.ok
    /\ DevEntry(devCall.before, devCall.device).initCount = 1
    /\ DevEntry(deviceDpyList[devCall.data], devCall.device).initCount = 2

\* No device has two internal displays in the list of a platform data.
OnePerDevice ==
    \A data \in Data :
        \A i, j \in 1..Len(deviceDpyList[data]) :
            deviceDpyList[data][i].eglDevice = deviceDpyList[data][j].eglDevice
                => i = j

GetStepLaw ==
    \A data \in Data, device \in EglDevices, ok \in BOOLEAN :
        DevGet(data, device, ok) =>
            LET list == deviceDpyList[data]
                after == deviceDpyList'[data]
                hit == \E i \in 1..Len(list) : list[i].eglDevice = device
            IN
            /\ \A other \in Data \ {data} :
                deviceDpyList'[other] = deviceDpyList[other]
            /\ hit => devCall'.res /\ after = list
            /\ (~hit /\ ok) =>
                /\ devCall'.res
                /\ Len(after) = Len(list) + 1
                /\ DevOthers(after, device) = list
                /\ DevEntry(after, device).initCount = 0
            /\ (~hit /\ ~ok) => ~devCall'.res /\ after = list

\* C18: the list of internal displays of a platform data never holds two
\* entries for one device: wlGetInternalDisplay returns the entry already
\* there and leaves the list as it is, and otherwise, unless it fails, adds
\* exactly one entry for the device.
C18_OneInternalDisplayPerDevice == []OnePerDevice /\ [][GetStepLaw]_vars

C18_Witness ==
    /\ devCall.op = "get"
    /\ devCall.res
    /\ Len(devCall.before) = 2
    /\ devCall.before[2].eglDevice = devCall.device
    /\ deviceDpyList[devCall.data] = devCall.before

(***************************************************************************)
(* Properties of concurrent wlEglGetPlatformDisplayExport (SpecCreators).  *)
(***************************************************************************)
\* The displays in the list that a scan for `key` would accept.
ListedFor(key) ==
    {i \in 1..Len(wlEglDisplayList) :
        Matches(dpy[wlEglDisplayList[i]], key[1], key[3], key[2])}

\* C19: threads that call wlEglGetPlatformDisplayExport at the same time
\* with the same key never both insert a display: wlExternalApiLock is held
\* from the scan of the list to the insertion or the failure exit, so the
\* list never holds two displays for one key, every caller of a key is
\* given the same display, and a thread is between its scan and its exit
\* only while it holds the lock.
C19_NoDuplicateInsert ==
    /\ \A key \in AppKeys : Cardinality(ListedFor(key)) <= 1
    /\ \A p, q \in returned : p[1] = q[1] => p[2] = q[2]
    /\ \A t \in Threads : pc[t].at \in {"scanning", "creating"} => apiLock = t

C19_Witness ==
    \E t \in Threads :
        /\ pc[t].at = "scanning"
        /\ pc[t].seen < Len(wlEglDisplayList)
        /\ LET hit == FindDisplay(wlEglDisplayList, pc[t].key[1],
                                  pc[t].key[3], pc[t].key[2])
           IN /\ hit # 0
              /\ <<pc[t].key, hit>> \in returned
              /\ \A i \in ListedFor(pc[t].key) :
                    i <= Len(wlEglDisplayList) - pc[t].seen

(***************************************************************************)
(* Properties of wlEglGetPlatformDisplayExport in an environment           *)
(* (SpecEnvironment).                                                      *)
(***************************************************************************)
\* The compositor offers neither wl_eglstream_display nor
\* zwp_linux_dmabuf_v1, or no device is requested, the offload variable is
\* not set and the compositor's device does not pass as an NVIDIA device.
Unsupported(env, requestedDevice) ==
    \/ ~env.hasEglStream /\ ~env.hasDmaBuf
    \/ requestedDevice = 0 /\ ~env.offload /\ ~checkNvidiaDrmDevice(env)

\* A call for a display that is not in the list, in an environment where
\* nothing but the support can fail.
UnsupportedCreate(env, data, nativeDpy, requestedDevice, useInitRefCount) ==
    /\ env.probeOk
    /\ Unsupported(env, requestedDevice)
    /\ FindDisplay(wlEglDisplayList, nativeDpy, useInitRefCount,
                   requestedDevice) = 0
    /\ EnvCreate(1, data, nativeDpy, requestedDevice, useInitRefCount, env)

\* C20: in an unsupported environment (neither wl_eglstream_display nor
\* zwp_linux_dmabuf_v1, or no device requested, no render offload and a
\* device that fails the NVIDIA check) wlEglGetPlatformDisplayExport
\* returns EGL_NO_DISPLAY, sets no error and leaves wlEglDisplayList as it
\* was.
C20_UnsupportedIsNoError ==
    [][\A env \in Environments, data \in Data, nativeDpy \in NativeDpys,
          requestedDevice \in EglDevices, useInitRefCount \in BOOLEAN :
        UnsupportedCreate(env, data, nativeDpy, requestedDevice,
                          useInitRefCount) =>
            /\ lastCall'.result = 0
            /\ lastCall'.err = "none"
            /\ wlEglDisplayList' = wlEglDisplayList]_vars

\* What holds instead.  An unsupported environment takes one of the three
\* exits before the device query, and the error is EGL_BAD_ALLOC exactly
\* when the compositor has named no device.
UnsupportedErrorLaw ==
    \A env \in Environments, requestedDevice \in EglDevices :
        (env.probeOk /\ Unsupported(env, requestedDevice)) =>
            /\ EnvFail(env, requestedDevice) \in
                    {"protocols", "notNV", "noProtocol"}
            /\ FailError(EnvFail(env, requestedDevice)) =
                    (IF HasDrmName(env) THEN "none" ELSE "EGL_BAD_ALLOC")

\* A call that returns EGL_NO_DISPLAY leaves the list of displays and the
\* internal displays as they were.
FailedCreateKeepsLists ==
    [][(lastCall'.op = "getPlatformDisplay" /\ lastCall'.result = 0) =>
            /\ wlEglDisplayList' = wlEglDisplayList
            /\ deviceDpyList' = deviceDpyList]_vars


(***************************************************************************)
(* Properties of the done, tranche_done and format_table events            *)
(* (SpecFeedback).                                                         *)
(***************************************************************************)

\* A dmabuf_feedback_done step sets feedbackDone and unprocessedFeedback
\* and leaves every other field of the feedback as it was.
DoneStepLaw ==
    dmabuf_feedback_done =>
        /\ feedback'.feedbackDone
        /\ feedback'.unprocessedFeedback
        /\ feedback'.tranches = feedback.tranches
        /\ feedback'.tmpTranche = feedback.tmpTranche
        /\ feedback'.mainDev = feedback.mainDev
        /\ feedback'.formatTable = feedback.formatTable

\* The step starts and ends with feedbackDone set: it is none of the four
\* events that call dmabuf_feedback_check_reset_tranches, which clear the
\* flag.
InsideDoneWindow == feedback.feedbackDone /\ feedback'.feedbackDone

\* The statement of C21 as written: a done event changes only the two
\* flags, and from then on the committed list stays as it is until the
\* next main_device, tranche_target_device, tranche_flags or
\* tranche_formats event.
C21_ListFrozenUntilResettingEvent ==
    [][/\ DoneStepLaw
       /\ InsideDoneWindow => feedback'.tranches = feedback.tranches]_vars

\* C21: a done event sets feedbackDone and unprocessedFeedback and changes
\* nothing else (committed list, working tranche, main device and format
\* table stay); after it the committed list stays as it is until the next
\* main_device, tranche_target_device, tranche_flags, tranche_formats or
\* tranche_done event, and a tranche_done in that window appends the
\* working tranche to the list the done event announced.
C21_DoneSetsFlagsOnly ==
    [][/\ DoneStepLaw
       /\ (InsideDoneWindow /\ feedback'.tranches # feedback.tranches) =>
            /\ \E allocOk \in BOOLEAN : dmabuf_feedback_tranche_done(allocOk)
            /\ feedback'.tranches =
                    Append(feedback.tranches, feedback.tmpTranche)]_vars

\* A done event has been handled with a committed tranche and a working
\* tranche that was begun and not committed, and both are still there.
C21_Witness ==
    /\ feedback.feedbackDone
    /\ feedback.unprocessedFeedback
    /\ cycle >= 1
    /\ lastEv = NoEvent
    /\ Len(feedback.tranches) = 1
    /\ feedback.tranches[1].formatSet.dmaBufFormats # <<>>
    /\ feedback.tmpTranche.drmDev # 0
    /\ feedback.mainDev # 0
    /\ ~crashed


\* The step is one of the three per-tranche events.
PerTrancheEvent ==
    \/ \E dev \in DevIds : dmabuf_feedback_tranche_target_device(dev)
    \/ \E flags \in FlagValues : dmabuf_feedback_tranche_flags(flags)
    \/ \E indices \in IndexArrays, allocOk \in BOOLEAN :
            dmabuf_feedback_tranche_formats(indices, allocOk)

\* After a tranche_done event the working tranche is empty: the memset of
\* tmpTranche that ends the handler.
TrancheDoneEmptiesWorkingTranche ==
    [][(\E allocOk \in BOOLEAN : dmabuf_feedback_tranche_done(allocOk))
            /\ ~crashed'
        => feedback'.tmpTranche = EmptyTranche]_vars

\* C22: the working tranche is empty (target device 0, supportsScanout
\* false, no formats) after each tranche_done event, and it is empty when
\* the per-tranche event that performs the lazy reset of a new cycle has
\* made its reset and starts to record its data.
C22_WorkingTrancheEmptyAtCycleStart ==
    [][/\ (\E allocOk \in BOOLEAN : dmabuf_feedback_tranche_done(allocOk))
            /\ ~crashed'
          => feedback'.tmpTranche = EmptyTranche
       /\ (feedback.feedbackDone /\ PerTrancheEvent /\ ~crashed')
          => dmabuf_feedback_check_reset_tranches(feedback).tmpTranche
                = EmptyTranche]_vars

\* The same for the cycles in which the done event found the working
\* tranche committed: whenever done is handled with an empty tmpTranche,
\* the resetting event starts from an empty tmpTranche.
CommittedCycleStartsEmpty ==
    [][(feedback.feedbackDone /\ feedback.tmpTranche = EmptyTranche
            /\ PerTrancheEvent /\ ~crashed')
        => dmabuf_feedback_check_reset_tranches(feedback).tmpTranche
                = EmptyTranche]_vars


(***************************************************************************)
(* Properties of the format table mapping (SpecFeedbackLife,               *)
(* SpecFormatTable).                                                       *)
(***************************************************************************)

\* The step is a format_table event that returns.
FormatTableEvent ==
    /\ \E size \in WholeTableSizes, mmapOk \in BOOLEAN :
            dmabuf_feedback_format_table(size, mmapOk)
    /\ ~crashed'

\* C23: every region a format_table event maps is unmapped exactly once:
\* no format_table event stores over the address of a region that is still
\* mapped (nothing could unmap that region afterwards), no
\* wlEglDestroyFeedback unmaps a region that was unmapped before, and
\* after wlEglDestroyFeedback no region is mapped.
C23_EachRegionUnmappedOnce ==
    [][/\ FormatTableEvent => feedback.formatTable.entry # "mapped"
       /\ (DestroyFeedback /\ ~crashed') =>
            /\ feedback.formatTable.entry # "unmapped"
            /\ feedback'.formatTable.entry # "mapped"]_vars

\* A region that is mapped when wlEglDestroyFeedback is called is unmapped
\* by it, and the field keeps the address.
DestroyUnmapsMappedRegion ==
    [][(DestroyFeedback /\ ~crashed'
            /\ feedback.formatTable.entry = "mapped")
        => feedback'.formatTable.entry = "unmapped"]_vars

\* The second kind of violation alone: wlEglDestroyFeedback is never
\* called with the address of a region it has unmapped.
NoSecondUnmap ==
    [][(DestroyFeedback /\ ~crashed')
        => feedback.formatTable.entry # "unmapped"]_vars


\* The step is a format_table event, of any size, that returns.
AnyFormatTableEvent ==
    /\ \E size \in TableSizes, mmapOk \in BOOLEAN :
            dmabuf_feedback_format_table(size, mmapOk)
    /\ ~crashed'

\* C24: a format_table event closes the descriptor whether mmap succeeded
\* or failed; when it failed the table length is 0 afterwards, and as long
\* as it is, a tranche_formats event skips every index: it ends without an
\* error state and the working tranche has the formats it had.
C24_FailedMappingIsEmptyTable ==
    [][/\ AnyFormatTableEvent =>
            /\ lastEv'.fdClosed
            /\ feedback'.formatTable.entry = "failed"
                    => feedback'.formatTable.len = 0
       /\ (feedback.formatTable.entry = "failed"
            /\ \E indices \in IndexArrays, allocOk \in BOOLEAN :
                    dmabuf_feedback_tranche_formats(indices, allocOk)) =>
            /\ ~crashed'
            /\ feedback'.tmpTranche = feedback.tmpTranche
            /\ feedback'.formatTable = feedback.formatTable]_vars

\* A table was mapped and formats were read from it, then a format_table
\* event failed to map, and the tranche_formats event handled last left
\* the working tranche with the formats it had.
C24_Witness ==
    /\ feedback.formatTable.entry = "failed"
    /\ feedback.formatTable.len = 0
    /\ ~lastEv.fdClosed
    /\ feedback.tmpTranche.formatSet.dmaBufFormats # <<>>
    /\ ~crashed


(***************************************************************************)
(* Properties of terminateDisplay and wlEglDestroyAllDisplays (Spec).      *)
(***************************************************************************)

\* The initCount of the internal display that the display at h points to,
\* 0 when it has none.
DevCountOf(h) ==
    LET list == IF dpy[h].data \in Data THEN deviceDpyList[dpy[h].data]
                                        ELSE <<>>
        i == FindDevDpy(list, dpy[h].devDpy)
    IN IF i = 0 THEN 0 ELSE list[i].initCount

\* A turn of the loop of wlEglDestroyAllDisplays on a display of its
\* table: whatever egl.terminate returns, the display ends with initCount
\* 0 and out of the list, the loop goes on with the displays that follow,
\* and the local res stays EGL_TRUE.
DestroyAllStepLaw(t) ==
    \A termOk \in BOOLEAN :
        (/\ DestroyAllStep(t, termOk)
         /\ ~crashed'
         /\ dpy[Head(pc[t].cursor)].data = pc[t].data) =>
            LET h == Head(pc[t].cursor) IN
            /\ dpy'[h].initCount = 0
            /\ wlEglDisplayList' = ListRemove(wlEglDisplayList, h)
            /\ pc'[t].at = "destroying"
            /\ pc'[t].cursor = Tail(pc[t].cursor)
            /\ pc'[t].res

\* wlEglTerminateHook on a display initialized once whose internal display
\* is initialized once, with egl.terminate failing: the hook will return
\* EGL_FALSE and the display is as it was.
TerminateFailureLaw(t) ==
    (/\ TerminateBody(t, FALSE)
     /\ ~crashed'
     /\ dpy[pc[t].h].initCount = 1
     /\ DevCountOf(pc[t].h) = 1) =>
        /\ ~pc'[t].res
        /\ dpy' = dpy
        /\ deviceDpyList' = deviceDpyList

\* C25: wlEglDestroyAllDisplays terminates every display of its table as a
\* global teardown: whatever the display's initCount was, also above 1, it
\* is 0 afterwards; a failure of the native terminate for one display
\* stops neither the teardown of that display nor the loop, and the local
\* res the function returns stays EGL_TRUE; the same native failure in
\* wlEglTerminateHook is returned to the caller as EGL_FALSE.
C25_DestroyAllForcesTeardown ==
    /\ [](\A t \in Threads : pc[t].at = "destroying" => pc[t].res)
    /\ [][\A t \in Threads :
            DestroyAllStepLaw(t) /\ TerminateFailureLaw(t)]_vars

\* wlEglDestroyAllDisplays has just terminated a display that had been
\* initialized twice and whose native terminate failed (the internal
\* display still counts 1); the display has initCount 0 and is out of the
\* list, and res is EGL_TRUE.
C25_Witness ==
    \E t \in Threads, h \in Handles :
        /\ pc[t].at = "destroying"
        /\ pc[t].was = 2
        /\ pc[t].res
        /\ mem[h] = "live"
        /\ dpy[h].data = pc[t].data
        /\ dpy[h].initCount = 0
        /\ dpy[h].devDpy = NoDevDpy
        /\ \A i \in 1..Len(wlEglDisplayList) : wlEglDisplayList[i] # h
        /\ \E i \in 1..Len(deviceDpyList[pc[t].data]) :
                deviceDpyList[pc[t].data][i].initCount = 1
        /\ ~crashed


(***************************************************************************)
(* Properties of the two kinds of lock (SpecLocks).                        *)
(***************************************************************************)

\* The thread is inside a call and takes its next step.
Advance(t) == pc[t].at # "idle" /\ LockSteps(t)

\* A thread that holds a display->mutex is inside a hook body: it is at no
\* place where wlExternalApiLock is requested.
NoApiLockUnderMutex ==
    \A t \in Threads, h \in Handles :
        mutex[h] = t => pc[t].at = "locked"

\* The thread is at a lock request and another thread holds that lock:
\* wlExternalApiLock at the start of wlEglGetPlatformDisplayExport and in
\* wlEglReleaseDisplay, display->mutex at the start of a hook body and in
\* the loop of wlEglDestroyAllDisplays.
Blocked(t) ==
    CASE pc[t].at \in {"entered", "unlocked"} -> apiLock # 0
      [] pc[t].at = "acquired" -> mutex[pc[t].h] # 0
      [] pc[t].at = "destroying" ->
            /\ pc[t].cursor # <<>>
            /\ dpy[Head(pc[t].cursor)].data = pc[t].data
            /\ mutex[Head(pc[t].cursor)] # 0
      [] OTHER -> FALSE

\* The thread is in wlEglInitializeHook on a display whose initCount is at
\* the bound of the model.
AtBound(t) ==
    /\ pc[t].at = "locked"
    /\ pc[t].op = "initialize"
    /\ dpy[pc[t].h].initCount >= MaxInit

\* While some thread is inside a call, some thread inside a call is not
\* waiting for a lock; and a thread that is not waiting can take its step.
NoDeadlock ==
    \/ crashed
    \/ /\ (\E t \in Threads : pc[t].at # "idle") =>
                \E t \in Threads : pc[t].at # "idle" /\ ~Blocked(t)
       /\ \A t \in Threads :
            (pc[t].at # "idle" /\ ~Blocked(t) /\ ~AtBound(t)) =>
                ENABLED Advance(t)

\* C26: no thread requests wlExternalApiLock while it holds a
\* display->mutex (the hooks unlock the mutex before they call
\* wlEglReleaseDisplay), and no interleaving of
\* wlEglGetPlatformDisplayExport, the initialize, terminate and
\* queryDisplayAttrib hooks and wlEglDestroyAllDisplays reaches a state in
\* which the threads inside a call all wait.
C26_NoDeadlock == NoApiLockUnderMutex /\ NoDeadlock

\* One thread is inside wlEglDestroyAllDisplays, holding
\* wlExternalApiLock and waiting for the mutex of the display it has
\* reached, which the other thread holds inside a hook body.
C26_Witness ==
    \E t, u \in Threads :
        /\ apiLock = t
        /\ pc[t].at = "destroying"
        /\ pc[t].cursor # <<>>
        /\ dpy[Head(pc[t].cursor)].data = pc[t].data
        /\ mutex[Head(pc[t].cursor)] = u
        /\ pc[u].at = "locked"
        /\ u # t
        /\ ~crashed


(***************************************************************************)
(* Properties of wlEglGetPlatformDisplayExport: the device and the         *)
(* failures (SpecHooks, SpecDirectory).                                    *)
(***************************************************************************)

\* C27: a display created with EGL_DEVICE_EXT D points to the internal
\* display of D, which is in the list of its platform data; that device is
\* what wlEglQueryDisplayAttribHook stores for EGL_DEVICE_EXT, since it
\* reads display->devDpy->eglDevice.
C27_BoundToRequestedDevice ==
    \A h \in Handles :
        (mem[h] = "live" /\ Listed(h) /\ dpy[h].requestedDevice # 0) =>
            /\ dpy[h].devDpy = dpy[h].requestedDevice
            /\ FindDevDpy(deviceDpyList[dpy[h].data],
                          dpy[h].requestedDevice) # 0


\* The failure points of wlEglGetPlatformDisplayExport that are failed
\* allocations: calloc of the display, wl_display_connect(NULL), calloc of
\* eglDeviceList, and wlGetInternalDisplay, whose calloc is its first
\* failure.
AllocFailPoints == {"calloc", "connect", "listAlloc", "internal"}

\* A call of wlEglGetPlatformDisplayExport that fails at one of `points`
\* returns EGL_NO_DISPLAY, leaves the lists and the heap as they were, and
\* sets the error `err`.
FailsWith(points, err) ==
    \A t \in Threads, data \in Data, nativeDpy \in NativeDpys,
       requestedDevice \in EglDevices, useInitRefCount \in BOOLEAN,
       fail \in points :
        (/\ GetPlatformDisplay(t, data, nativeDpy, requestedDevice,
                               useInitRefCount, fail)
         /\ ~crashed') =>
            /\ lastCall'.result = 0
            /\ lastCall'.err = err
            /\ UNCHANGED <<mem, wlEglDisplayList, deviceDpyList>>

\* C28: every allocation failure in wlEglGetPlatformDisplayExport (the
\* display, the default connection, the device list, the internal
\* display) ends the call with EGL_NO_DISPLAY, nothing inserted, and
\* EGL_BAD_ALLOC set.
C28_AllocFailureSetsBadAlloc ==
    [][FailsWith(AllocFailPoints, "EGL_BAD_ALLOC")]_vars

\* The two failures that do set the error: calloc of the display and
\* wl_display_connect(NULL).
EarlyAllocFailureSetsBadAlloc ==
    [][FailsWith({"calloc", "connect"}, "EGL_BAD_ALLOC")]_vars

\* The two that do not: the call returns EGL_NO_DISPLAY with nothing
\* inserted and sets no error.
LateAllocFailureSetsNoError ==
    [][FailsWith({"listAlloc", "internal"}, "none")]_vars


(***************************************************************************)
(* Properties of one call of terminateDisplay (SpecTerminate).             *)
(***************************************************************************)

\* The call went past the tests of initCount and the result of
\* wlInternalTerminate: it set initCount to 0.
FullTermination == tdCall.made /\ tdCall.before.initCount > 0
                               /\ tdCall.after.initCount = 0

\* The calls of the list, as a set.
Called == {tdCall.calls[i] : i \in 1..Len(tdCall.calls)}

\* The calls that release the format set, the feedback, the protocol
\* objects and the event queue.
ReleaseCalls ==
    {"wlEglDestroyFormatSet", "wlEglDestroyFeedback",
     "zwp_linux_dmabuf_feedback_v1_destroy"} \cup
    {ObjectDestroys[i].call : i \in 1..Len(ObjectDestroys)}

\* Every release that has something to release: the format set and the
\* feedback always, a protocol object or the queue if its pointer is set.
DueReleases ==
    {"wlEglDestroyFormatSet", "wlEglDestroyFeedback"} \cup
    {ObjectDestroys[i].call : i \in
        {k \in 1..Len(ObjectDestroys) : ObjectDestroys[k].obj \in tdCall.objs}}
    \cup (IF "wlDmaBufFeedback" \in tdCall.objs
          THEN {"zwp_linux_dmabuf_feedback_v1_destroy"} ELSE {})

\* C29: in a full termination the format set, the feedback, the protocol
\* objects and the event queue are released if and only if the call is
\* not a global teardown or the display owns its native connection; in a
\* global teardown of a display on the caller's connection none of them
\* is touched, while initCount is set to 0 and wlEglDestroyAllSurfaces is
\* called all the same.
C29_ReleasesUnlessForeignTeardown ==
    FullTermination =>
        /\ "wlEglDestroyAllSurfaces" \in Called
        /\ IF ~tdCall.globalTeardown \/ tdCall.before.ownNativeDpy
           THEN /\ Called \cap ReleaseCalls = DueReleases
                /\ ~tdCall.after.bound
                /\ tdCall.left \subseteq {"wlDmaBufFeedback"}
           ELSE /\ Called \cap ReleaseCalls = {}
                /\ tdCall.after.bound = tdCall.before.bound
                /\ tdCall.left = tdCall.objs

\* A global teardown of a display initialized twice on the caller's
\* connection, with every protocol object bound: the call made was
\* wlInternalTerminate, then wlEglDestroyAllSurfaces, and nothing else.
C29_Witness ==
    /\ FullTermination
    /\ tdCall.globalTeardown
    /\ ~tdCall.before.ownNativeDpy
    /\ tdCall.before.initCount = 2
    /\ tdCall.objs = ProtocolObjects \cup {"wlEventQueue"}
    /\ tdCall.calls = <<"wlInternalTerminate", "wlEglDestroyAllSurfaces">>
    /\ tdCall.left = tdCall.objs

\* The place of a call in the list, 0 if it was not made.
Place(call) ==
    IF call \in Called
    THEN CHOOSE i \in 1..Len(tdCall.calls) : tdCall.calls[i] = call
    ELSE 0

\* Both calls were made and `first` was made before `second`.
Before(first, second) ==
    Place(first) # 0 /\ Place(first) < Place(second)

\* C30: the order of the releases in a full termination:
\* wlInternalTerminate is the first call and wlEglDestroyAllSurfaces the
\* second; wlEglDestroyFeedback, and with it the release of the feedback
\* object, comes before zwp_linux_dmabuf_v1_destroy; and
\* wl_event_queue_destroy comes after the release of every protocol
\* object whose pointer was set.
C30_ReleaseOrder ==
    FullTermination =>
        /\ tdCall.calls[1] = "wlInternalTerminate"
        /\ tdCall.calls[2] = "wlEglDestroyAllSurfaces"
        /\ \A c \in Called \cap ReleaseCalls :
                Before("wlEglDestroyAllSurfaces", c)
        /\ "zwp_linux_dmabuf_v1_destroy" \in Called =>
            /\ Before("wlEglDestroyFeedback", "zwp_linux_dmabuf_v1_destroy")
            /\ "wlDmaBufFeedback" \in tdCall.objs =>
                    Before("zwp_linux_dmabuf_feedback_v1_destroy",
                           "zwp_linux_dmabuf_v1_destroy")
        /\ "wl_event_queue_destroy" \in Called =>
            /\ Place("wl_event_queue_destroy") = Len(tdCall.calls)
            /\ \A o \in tdCall.objs \cap ProtocolObjects :
                \E i \in 1..Len(tdCall.calls) - 1 :
                    \/ /\ o = "wlDmaBufFeedback"
                       /\ tdCall.calls[i] =
                            "zwp_linux_dmabuf_feedback_v1_destroy"
                    \/ \E k \in 1..Len(ObjectDestroys) :
                        /\ ObjectDestroys[k].obj = o
                        /\ ObjectDestroys[k].call = tdCall.calls[i]

\* wlEglTerminateHook's call on a display on its own connection with every
\* protocol object bound: all twelve calls were made.
C30_Witness ==
    /\ FullTermination
    /\ ~tdCall.globalTeardown
    /\ tdCall.objs = ProtocolObjects \cup {"wlEventQueue"}
    /\ Len(tdCall.calls) = 12
    /\ tdCall.calls[Len(tdCall.calls)] = "wl_event_queue_destroy"


(***************************************************************************)
(* The format-table mapping and the committed tranches (SpecFeedbackLife). *)
(***************************************************************************)

\* The step returns and empties a tranche list that held tranches.
ClearsList ==
    /\ ~crashed'
    /\ Len(feedback.tranches) > 0
    /\ Len(feedback'.tranches) = 0

\* The step returns and unmaps the mapped format table.
Unmaps ==
    /\ ~crashed'
    /\ feedback.formatTable.entry = "mapped"
    /\ feedback'.formatTable.entry = "unmapped"

\* C31: the format-table mapping and the committed tranche list are
\* destroyed together: no step empties the tranche list and leaves the
\* table mapped, and no step unmaps the table and leaves tranches in the
\* list.
C31_TableAndTranchesDestroyedTogether ==
    [][/\ ClearsList => feedback'.formatTable.entry # "mapped"
       /\ Unmaps => Len(feedback'.tranches) = 0]_vars

\* C31 as the code has it: a step that unmaps the table leaves no tranche
\* in the list; a step that empties the list either unmaps the table, or
\* had no mapping to unmap, or is the lazy reset of the first event after
\* done, which leaves the mapping and the table as they were.
C31_UnmapClearsListLazyResetKeepsTable ==
    [][/\ Unmaps => Len(feedback'.tranches) = 0
       /\ ClearsList =>
            \/ Unmaps
            \/ feedback.formatTable.entry # "mapped"
            \/ /\ feedback.feedbackDone
               /\ lastEv'.cleared
               /\ feedback'.formatTable = feedback.formatTable]_vars

\* A lazy reset has just emptied the committed list and the table is
\* still mapped.
C31_Witness ==
    /\ ~crashed
    /\ lastEv.cleared
    /\ feedback.tranches = <<>>
    /\ feedback.formatTable.entry = "mapped"
    /\ feedback.formatTable.len > 0


(***************************************************************************)
(* What wlEglDestroyFeedback leaves allocated (SpecFeedbackLife).          *)
(***************************************************************************)

\* The format set owns storage: it has an array that was not passed to
\* free().
Allocated(set) == set.dmaBufFormats # <<>> /\ ~set.freed

\* C32: after wlEglDestroyFeedback, whatever events came before it, no
\* format set of the feedback owns storage: the format set of the working
\* tranche is freed, the committed list is empty (its format sets and the
\* array freed), and the format table is not mapped.
C32_DestroyFreesEveryFormatSet ==
    [][(DestroyFeedback /\ ~crashed') =>
            /\ ~Allocated(feedback'.tmpTranche.formatSet)
            /\ feedback'.tranches = <<>>
            /\ feedback'.formatTable.entry # "mapped"]_vars

\* With a tranche in the committed list wlEglDestroyFeedback frees all of
\* it; the leak needs an empty list.
DestroyWithTranchesFreesAll ==
    [][(DestroyFeedback /\ ~crashed' /\ Len(feedback.tranches) > 0) =>
            /\ ~Allocated(feedback'.tmpTranche.formatSet)
            /\ feedback'.tranches = <<>>
            /\ feedback'.formatTable.entry # "mapped"]_vars

\* With an empty committed list wlEglDestroyFeedback leaves the working
\* tranche as it was.
DestroyWithoutTranchesKeepsWorkingSet ==
    [][(DestroyFeedback /\ ~crashed' /\ Len(feedback.tranches) = 0) =>
            feedback'.tmpTranche = feedback.tmpTranche]_vars


(***************************************************************************)
(* The initCount of an internal display shared by the displays of several  *)
(* threads (SpecSharedDevice).                                             *)
(***************************************************************************)

\* No thread is inside a call.
Quiescent == \A t \in Threads : pc[t].at = "idle"

\* The displays that were created and not torn down.
Created == {h \in Handles : mem[h] # "unused"}

\* The displays bound to entry i of the internal displays of `data` whose
\* own initCount is above 0.
InitializedOn(data, i) ==
    {h \in Created : /\ dpy[h].data = data
                     /\ dpy[h].devDpy = deviceDpyList[data][i].eglDevice
                     /\ dpy[h].initCount > 0}

\* The displays bound to entry i of the internal displays of `data`.
BoundTo(data, i) ==
    {h \in Created : /\ dpy[h].data = data
                     /\ dpy[h].devDpy = deviceDpyList[data][i].eglDevice}

\* The two threads are inside wlInternalInitialize (at = "initTested") or
\* wlInternalTerminate (at = "termTested") on displays of one internal
\* display and both have seen the counter at `seen`: both make the native
\* call.
BothSaw(at, seen) ==
    \E t1, t2 \in Threads :
        /\ t1 # t2
        /\ pc[t1].at = at /\ pc[t1].seen = seen
        /\ pc[t2].at = at /\ pc[t2].seen = seen
        /\ dpy[pc[t1].h].data = dpy[pc[t2].h].data
        /\ dpy[pc[t1].h].devDpy = dpy[pc[t2].h].devDpy

\* C33: the changes of the initCount of an internal display are
\* serialized: of two threads that initialize two displays of an internal
\* display with initCount 0 only one calls the native initialize, and when
\* both calls have returned with both displays initialized the counter is
\* 2; of two threads that terminate them only one calls the native
\* terminate, and when none of the displays is initialized any more the
\* counter is 0.
C33_InitCountSerialized ==
    /\ ~BothSaw("initTested", 0)
    /\ ~BothSaw("termTested", 1)
    /\ Quiescent =>
        \A data \in Data : \A i \in 1..Len(deviceDpyList[data]) :
            /\ Cardinality(BoundTo(data, i)) = 2
                    /\ InitializedOn(data, i) = BoundTo(data, i)
                => deviceDpyList[data][i].initCount = 2
            /\ InitializedOn(data, i) = {}
                => deviceDpyList[data][i].initCount = 0

\* The first kind of violation alone: two native initialize calls.
NativeInitializeOnce == ~BothSaw("initTested", 0)

\* The second kind alone: two native terminate calls.
NativeTerminateOnce == ~BothSaw("termTested", 1)

\* The third kind alone: with both displays initialized and no call in
\* progress the counter is 2.
BothInitializedCountsTwo ==
    Quiescent =>
        \A data \in Data : \A i \in 1..Len(deviceDpyList[data]) :
            Cardinality(BoundTo(data, i)) = 2
                    /\ InitializedOn(data, i) = BoundTo(data, i)
                => deviceDpyList[data][i].initCount = 2


(***************************************************************************)
(* The failure exit of wlEglGetPlatformDisplayExport (SpecDirectory).      *)
(***************************************************************************)

\* The connections the caller can supply.
CallerConns == 1..MaxConn

\* The step is a wlEglGetPlatformDisplayExport that found no display in
\* the list and returned EGL_NO_DISPLAY.
CreateFailedAfterMiss ==
    /\ ~crashed'
    /\ lastCall' # lastCall
    /\ lastCall'.op = "getPlatformDisplay"
    /\ lastCall'.build.missed
    /\ lastCall'.result = 0

\* C34: when wlEglGetPlatformDisplayExport fails after it found no display
\* in the list, the list and the displays are as before: the display it
\* allocated is not linked and has been freed; a connection the call
\* opened with wl_display_connect(NULL) has been disconnected, and no
\* other connection, in particular none supplied by the caller, has.
C34_FailedCreateCleansUp ==
    [][CreateFailedAfterMiss =>
        LET b == lastCall'.build IN
        /\ wlEglDisplayList' = wlEglDisplayList
        /\ mem' = mem
        /\ dpy' = dpy
        /\ returned' = returned
        /\ b.freed = b.display
        /\ \A k \in 1..Len(wlEglDisplayList') :
                wlEglDisplayList'[k] # b.display
        /\ b.opened # 0 => b.disconnected = {b.opened}
        /\ b.opened = 0 => b.disconnected = {}
        /\ b.disconnected \cap CallerConns = {}]_vars

\* A call with nativeDpy NULL has failed after its wl_display_connect: the
\* connection it opened was disconnected, the display freed, and the list
\* still holds the display created before.
C34_Witness ==
    /\ lastCall.op = "getPlatformDisplay"
    /\ lastCall.result = 0
    /\ lastCall.build.missed
    /\ lastCall.build.opened # 0
    /\ lastCall.build.disconnected = {lastCall.build.opened}
    /\ lastCall.build.freed = lastCall.build.display
    /\ lastCall.build.display # 0
    /\ Len(wlEglDisplayList) = 1

\* A call on a connection of the caller has failed after calloc: nothing
\* was disconnected.
FailedOnCallerConnection ==
    /\ lastCall.op = "getPlatformDisplay"
    /\ lastCall.result = 0
    /\ lastCall.build.display # 0
    /\ lastCall.build.opened = 0
    /\ lastCall.build.disconnected = {}
    /\ lastCall.err = "none"


(***************************************************************************)
(* The initCount of the internal displays and of the displays bound to     *)
(* them (SpecSharedDevice, Spec).                                          *)
(***************************************************************************)

\* C35: whenever no call is in progress, the initCount of every internal
\* display is the number of displays bound to it whose own initCount is
\* above 0, however often each of them was initialized.
C35_CountIsNumberOfInitializedDisplays ==
    Quiescent =>
        \A data \in Data : \A i \in 1..Len(deviceDpyList[data]) :
            deviceDpyList[data][i].initCount =
                Cardinality(InitializedOn(data, i))

\* A display initialized twice and another one initialized once share an
\* internal display, no call is in progress, and the counter is 2.
NestedAndSharedReached ==
    /\ Quiescent
    /\ \E data \in Data : \E i \in 1..Len(deviceDpyList[data]) :
        /\ deviceDpyList[data][i].initCount = 2
        /\ Cardinality(InitializedOn(data, i)) = 2
        /\ \E h \in InitializedOn(data, i) : dpy[h].initCount = 2


(***************************************************************************)
(* display->formatSet after terminateDisplay (SpecDisplayFormats).         *)
(***************************************************************************)

\* After a full termination the format set of the display is empty: no
\* formats and no storage.
EmptyAfterTermination ==
    (~crashed /\ ~fsListening) => fset = EmptyFormatSet

\* The step passes the format set to wlEglFormatSetAdd or to
\* wlEglDestroyFormatSet.
UsesFormatSet ==
    \/ DisplayTerminate
    \/ \E format \in FormatCodes, modifier \in Modifiers,
          okFormats \in BOOLEAN, okModifiers \in BOOLEAN :
            dmabuf_handle_modifier(format, modifier, okFormats, okModifiers)

\* C36: nothing reads, appends to or frees again the storage of the
\* display's format set once terminateDisplay has freed it: after a full
\* termination the set is empty, so the next termination frees nothing a
\* second time and the modifier events of the next initialization start
\* from an empty set.
C36_FormatSetEmptyAfterTerminate ==
    /\ []EmptyAfterTermination
    /\ [][UsesFormatSet => ~fset.freed]_vars

\* The first half alone.
TerminatedSetIsEmpty == []EmptyAfterTermination

\* The second half alone.
NoUseOfFreedFormatSet == [][UsesFormatSet => ~fset.freed]_vars

\* A display that received no modifier event is terminated: the set is
\* empty before and after.
TerminateOfEmptySetKeepsItEmpty ==
    [][(DisplayTerminate /\ fset = EmptyFormatSet) =>
            fset' = EmptyFormatSet]_vars


(***************************************************************************)
(* The working tranche after a lazy reset (SpecFeedback).                  *)
(***************************************************************************)

\* The format set of the working tranche never points to storage that was
\* passed to free(): a reset leaves it untouched or empty.
WorkingSetNeverDangling ==
    ~crashed => ~feedback.tmpTranche.formatSet.freed

\* The step is a tranche_formats event that names an entry of the table,
\* so that wlEglFormatSetAdd scans and grows the working tranche's arrays.
FormatsEventAdds ==
    \E indices \in IndexArrays, allocOk \in BOOLEAN :
        /\ dmabuf_feedback_tranche_formats(indices, allocOk)
        /\ InRange(feedback.formatTable, indices) # <<>>

\* C37: whatever events the compositor sends, also per-tranche events
\* followed by done without a tranche_done, no handler reads or appends to
\* format-set storage of the working tranche that a lazy reset has freed:
\* after every reset the working tranche's format set is untouched or
\* empty without storage.
C37_NoUseOfFreedWorkingSet ==
    /\ []WorkingSetNeverDangling
    /\ [][FormatsEventAdds =>
            ~dmabuf_feedback_check_reset_tranches(feedback)
                    .tmpTranche.formatSet.freed]_vars

\* The second half alone: no tranche_formats event works on freed arrays.
NoFormatsEventOnFreedSet ==
    [][FormatsEventAdds =>
            ~dmabuf_feedback_check_reset_tranches(feedback)
                    .tmpTranche.formatSet.freed]_vars

\* A lazy reset that finds the working tranche empty leaves it empty and
\* without storage.
ResetOfEmptyWorkingSetIsClean ==
    [][(~crashed' /\ lastEv'.cleared
            /\ feedback.tmpTranche.formatSet = EmptyFormatSet)
        => ~feedback'.tmpTranche.formatSet.freed]_vars


(***************************************************************************)
(* wlEglDestroyAllDisplays and the displays held by hooks in progress      *)
(* (SpecLocks).                                                            *)
(***************************************************************************)

\* The step is a turn of the loop of wlEglDestroyAllDisplays that returns
\* and tears down the allocated display h while a hook of another thread
\* has acquired h and not released it.
DestroysHeld(h) ==
    /\ ~crashed'
    /\ mem[h] = "live"
    /\ Holders(h) # {}
    /\ \E t \in Threads \ Holders(h) :
        /\ pc[t].at = "destroying"
        /\ pc[t].cursor # <<>>
        /\ Head(pc[t].cursor) = h
        /\ dpy[h].data = pc[t].data
        /\ pc'[t].cursor = Tail(pc[t].cursor)

\* C38: a display that a hook in progress (initialize, terminate or
\* queryDisplayAttrib) has acquired is not freed by a concurrent
\* wlEglDestroyAllDisplays: the turn of the loop unlinks it and drops one
\* reference, the list's own, and the display and its mutex stay
\* allocated for the hook's unlock and release.
C38_DestroyAllKeepsHeldDisplay ==
    [][\A h \in Handles :
        DestroysHeld(h) =>
            /\ ~wlEglIsWlEglDisplay(h)'
            /\ dpy'[h].refCount = dpy[h].refCount - 1
            /\ mem'[h] = "live"]_vars

\* What the turn of the loop does do to a held display: it unlinks it and
\* lowers its refCount by one.
DestroyAllUnlinksAndUnrefsHeld ==
    [][\A h \in Handles :
        DestroysHeld(h) =>
            /\ \A k \in 1..Len(wlEglDisplayList') : wlEglDisplayList'[k] # h
            /\ dpy'[h].refCount = dpy[h].refCount - 1]_vars

(***************************************************************************)
(* A non-global terminateDisplay whose native terminate fails              *)
(* (SpecTerminate).                                                        *)
(***************************************************************************)

\* The recorded call is a non-global terminate of a handle with
\* initCount == 1 in which egl.terminate was called and failed: the
\* internal display had the count 1 and is not terminated.
NativeTerminateFailed ==
    /\ tdCall.made
    /\ ~tdCall.globalTeardown
    /\ tdCall.before.initCount = 1
    /\ tdCall.native = 1
    /\ tdCall.devAfter > 0

\* C39: when a non-global terminate of a handle with initCount == 1 fails
\* because the native terminate fails, the call returns failure and the
\* handle is as before the call: initCount is still 1, its surfaces are not
\* destroyed (wlEglDestroyAllSurfaces is not called), and the format set,
\* the feedback, the protocol objects and the event queue are not released:
\* the only call made is wlInternalTerminate, every pointer is as it was,
\* and the count of the internal display is unchanged.
C39_FailedTerminateLeavesHandle ==
    NativeTerminateFailed =>
        /\ ~tdCall.res
        /\ tdCall.after = tdCall.before
        /\ tdCall.after.initCount = 1
        /\ tdCall.calls = <<"wlInternalTerminate">>
        /\ tdCall.left = tdCall.objs
        /\ tdCall.devAfter = tdCall.devBefore

\* Such a failed call on a display that owns its connection and has every
\* protocol object, the feedback and the event queue bound.
C39_Witness ==
    /\ NativeTerminateFailed
    /\ ~tdCall.res
    /\ tdCall.before.ownNativeDpy
    /\ tdCall.before.bound
    /\ tdCall.objs = ProtocolObjects \cup {"wlEventQueue"}

(***************************************************************************)
(* The committed list over the advertisement cycles                        *)
(* (SpecFeedbackContract).                                                 *)
(***************************************************************************)

\* The committed array holds exactly the tranches that tranche_done has
\* committed in the cycle of the last event, in the order of the commits.
ListIsThisCycle == feedback.tranches = gCycle.since

\* C40: under the contract that every cycle has one of main_device,
\* tranche_target_device, tranche_flags and tranche_formats before its
\* first tranche_done, the committed list at each done holds exactly the
\* tranches committed since the done before; and tranches of two cycles
\* are never in the list together: once one of the four events has opened
\* a cycle the list holds the commits of that cycle only, and until then
\* it holds what the done before left and no commit of the new cycle.
C40_ListAtDoneIsTheCycle ==
    (~crashed /\ gCycle.track) =>
        /\ gCycle.done => ListIsThisCycle
        /\ gCycle.open => ListIsThisCycle
        /\ (~gCycle.open /\ ~gCycle.done) =>
                /\ gCycle.since = <<>>
                /\ Len(feedback.tranches) = gCycle.before

\* The done of a later cycle that committed one tranche, after a cycle
\* that ended with two: the lazy reset has dropped the two.
C40_Witness ==
    /\ ~crashed
    /\ gCycle.track
    /\ gCycle.done
    /\ feedback.feedbackDone
    /\ gCycle.before = 2
    /\ Len(gCycle.since) = 1
    /\ gCycle.since[1].drmDev # 0
    /\ feedback.tranches = gCycle.since

\* Without the contract the list at a done may hold more than the commits
\* of its cycle: a tranche_done that precedes the four events appends to
\* the list of the cycle before, and a done that follows a done at once
\* shows that list again.
ListAtDoneWithoutContract ==
    (gCycle.track /\ gCycle.done) => ListIsThisCycle

====
